---- MODULE Spec2Model ----
(***************************************************************************)
(* Model of src/analyzers.py: the per-file structural extractors           *)
(* (CodeAnalyzer, PythonCodeVisitor), the dependency classifier            *)
(* (CodeAnalyzer.get_dependency_graph), the relative import resolver and   *)
(* the project pass (ProjectAnalyzer).                                     *)
(*                                                                         *)
(* Conventions.  A Python str is a tuple of one-character strings, so that *)
(* the code's character-level operations (regular expressions, brace       *)
(* scanning, startswith, split, os.path) are computed and not assumed.     *)
(* Offsets are 0-based as in Python: At(s, i) is s[i], Slice(s, a, b) is   *)
(* s[a:b].  Python's None is the value None; a dict is the sequence of its *)
(* (key, value) pairs in insertion order.  A Python file's text is         *)
(* represented by what ast.parse makes of it: a syntax error or the tree.  *)
(***************************************************************************)
EXTENDS Integers, Sequences, FiniteSets, TLC

VARIABLES
    project_path,      \* ProjectAnalyzer.project_path
    file_paths,        \* ProjectAnalyzer.file_paths (the inventory, in order)
    file_analyzers,    \* ProjectAnalyzer.file_analyzers: <<path, CodeAnalyzer>> pairs
    dependency_graph,  \* ProjectAnalyzer.dependency_graph: <<path, deps>> pairs
    cwd,               \* the process's working directory (os.path.relpath reads it)
    hash_seed,         \* the process's string hash seed: the order it gives every set
    fs,                \* the file system: path -> the file's text, or Unreadable
    pc,                \* position in analyze_project
    idx,               \* loop index of analyze_project's for loop (0-based)
    parsed,            \* the record analyzer.parse() returned for every path of the loop
    summary,           \* what analyze_project returned, NoValue before
    call               \* the last direct call of a method and what it returned

vars == <<project_path, file_paths, file_analyzers, dependency_graph, cwd,
          hash_seed, fs, pc, idx, parsed, summary, call>>

-----------------------------------------------------------------------------
(* Python values *)

None == <<"None">>
NoValue == [op |-> "none"]
Unreadable == <<"Unreadable">>


-----------------------------------------------------------------------------
(* str *)

At(s, i) == s[i + 1]
Slice(s, a, b) == SubSeq(s, a + 1, b)

Lower == {"a","b","c","d","e","f","g","h","i","j","k","l","m",
          "n","o","p","q","r","s","t","u","v","w","x","y","z"}
Upper == {"A","B","C","D","E","F","G","H","I","J","K","L","M",
          "N","O","P","Q","R","S","T","U","V","W","X","Y","Z"}
Digit == {"0","1","2","3","4","5","6","7","8","9"}
\* \w of a str pattern is Unicode-aware: beyond ASCII these are the characters it
\* matches among those a text of the model can hold (code points up to U+00FF)
WordChars ==
    Lower \cup Upper \cup Digit \cup {"_"}
    \cup {"ª", "²", "³", "µ", "¹", "º", "¼", "½", "¾", "À", "Á", "Â", "Ã", "Ä", "Å", "Æ", "Ç", "È", "É",
          "Ê", "Ë", "Ì", "Í", "Î", "Ï", "Ð", "Ñ", "Ò", "Ó", "Ô", "Õ", "Ö", "Ø", "Ù", "Ú", "Û", "Ü", "Ý",
          "Þ", "ß", "à", "á", "â", "ã", "ä", "å", "æ", "ç", "è", "é", "ê", "ë", "ì", "í", "î", "ï", "ð",
          "ñ", "ò", "ó", "ô", "õ", "ö", "ø", "ù", "ú", "û", "ü", "ý", "þ", "ÿ"}

\* \s of a str pattern, and what str.strip() strips: every character str.isspace()
\* holds of (tab, line feed, vertical tab, form feed, carriage return, U+001C..U+001F,
\* space, U+0085 and U+00A0, up to U+00FF)
SpaceChars ==
    {"\t", "\n", "", "\f", "\r", "", "", "", "", " ", "", " "}

\* The characters of the model's texts (up to U+00FF) in code point order (sorted() compares
\* strings by code point); a TLA+ string cannot hold a backquote.
Alphabet ==
    <<"\t", "\n", "", "\f", "\r", "", "", "", "", " ", "!", "\"", "#", "$", "%", "&", "'", "(",
      ")", "*", "+", ",", "-", ".", "/", "0", "1", "2", "3", "4", "5", "6", "7", "8", "9", ":", ";",
      "<", "=", ">", "?", "@", "A", "B", "C", "D", "E", "F", "G", "H", "I", "J", "K", "L", "M", "N",
      "O", "P", "Q", "R", "S", "T", "U", "V", "W", "X", "Y", "Z", "[", "\\", "]", "^", "_", "a", "b",
      "c", "d", "e", "f", "g", "h", "i", "j", "k", "l", "m", "n", "o", "p", "q", "r", "s", "t", "u",
      "v", "w", "x", "y", "z", "{", "|", "}", "~", "", " ", "¡", "¢", "£", "¤", "¥", "¦", "§", "¨",
      "©", "ª", "«", "¬", "­", "®", "¯", "°", "±", "²", "³", "´", "µ", "¶", "·", "¸", "¹", "º", "»",
      "¼", "½", "¾", "¿", "À", "Á", "Â", "Ã", "Ä", "Å", "Æ", "Ç", "È", "É", "Ê", "Ë", "Ì", "Í", "Î",
      "Ï", "Ð", "Ñ", "Ò", "Ó", "Ô", "Õ", "Ö", "×", "Ø", "Ù", "Ú", "Û", "Ü", "Ý", "Þ", "ß", "à", "á",
      "â", "ã", "ä", "å", "æ", "ç", "è", "é", "ê", "ë", "ì", "í", "î", "ï", "ð", "ñ", "ò", "ó", "ô",
      "õ", "ö", "÷", "ø", "ù", "ú", "û", "ü", "ý", "þ", "ÿ">>

RECURSIVE StrLess(_, _)
StrLess(a, b) ==
    LET ord(c) == CHOOSE i \in 1..Len(Alphabet) : Alphabet[i] = c
    IN  IF Len(b) = 0 THEN FALSE
    ELSE IF Len(a) = 0 THEN TRUE
    ELSE IF Head(a) = Head(b) THEN StrLess(Tail(a), Tail(b))
    ELSE ord(Head(a)) < ord(Head(b))

startswith(s, p) == Len(p) <= Len(s) /\ SubSeq(s, 1, Len(p)) = p
endswith(s, p) == Len(p) <= Len(s) /\ SubSeq(s, Len(s) - Len(p) + 1, Len(s)) = p

\* s.find(p, from): the least offset >= from at which p occurs in s, or -1
find(s, p, from) ==
    LET at == {i \in from..(Len(s) - Len(p)) : Slice(s, i, i + Len(p)) = p}
    IN  IF at = {} THEN -1 ELSE CHOOSE i \in at : \A j \in at : i <= j

Contains(s, p) == find(s, p, 0) >= 0

\* s.split(sep) for a non-empty separator
RECURSIVE split(_, _)
split(s, sep) ==
    LET i == find(s, sep, 0) IN
    IF i < 0 THEN <<s>>
    ELSE <<Slice(s, 0, i)>> \o split(Slice(s, i + Len(sep), Len(s)), sep)

RECURSIVE lstrip(_, _)
lstrip(s, cs) == IF Len(s) > 0 /\ Head(s) \in cs THEN lstrip(Tail(s), cs) ELSE s

RECURSIVE rstrip(_, _)
rstrip(s, cs) ==
    IF Len(s) > 0 /\ s[Len(s)] \in cs THEN rstrip(SubSeq(s, 1, Len(s) - 1), cs) ELSE s

strip(s) == lstrip(rstrip(s, SpaceChars), SpaceChars)

\* s.replace(a, b) for single characters a, b
replace(s, a, b) == [i \in 1..Len(s) |-> IF s[i] = a THEN b ELSE s[i]]

RECURSIVE join(_, _)
join(sep, parts) ==
    IF Len(parts) = 0 THEN <<>>
    ELSE IF Len(parts) = 1 THEN parts[1]
    ELSE parts[1] \o sep \o join(sep, Tail(parts))

\* [f(x) for x in seq]
Map(f(_), seq) == [i \in 1..Len(seq) |-> f(seq[i])]

Filter(keep(_), seq) == SelectSeq(seq, keep)

\* `name = value` followed by the statements Body(name)
Let(value, Body(_)) == Body(value)

Range(seq) == {seq[i] : i \in 1..Len(seq)}

RECURSIVE Sum(_)
Sum(seq) == IF Len(seq) = 0 THEN 0 ELSE Head(seq) + Sum(Tail(seq))

-----------------------------------------------------------------------------
(* re: a backtracking matcher with Python's priorities (greedy repetition    *)
(* first, alternatives left to right).  A pattern is a sequence of nodes:    *)
(*   set   one character in (neg: not in) cs                                  *)
(*   lit   the literal string s                                               *)
(*   bol   ^ without re.MULTILINE                                             *)
(*   grp   capture group i around the pattern r                               *)
(*   opt   (?:r)?     star  (?:r)*     plus  (?:r)+     lazy  (?:r)*?         *)
(*   alt   the alternatives rs                                                *)
(* A match is [ok, start, end, caps]; caps[i] is <<start, end>> of group i,  *)
(* NoGroup when the group took no part in the match.                         *)

MaxGroups == 3
NoGroup == <<-1, -1>>
NoMatch == [ok |-> FALSE]

Set(cs) == [t |-> "set", neg |-> FALSE, cs |-> cs]
NotSet(cs) == [t |-> "set", neg |-> TRUE, cs |-> cs]
Lit(s) == [t |-> "lit", s |-> s]
Grp(i, r) == [t |-> "grp", i |-> i, r |-> r]
Opt(r) == [t |-> "opt", r |-> r]
Star(r) == [t |-> "star", r |-> r]
Plus(r) == [t |-> "plus", r |-> r]
Lazy(r) == [t |-> "lazy", r |-> r]
Alt(rs) == [t |-> "alt", rs |-> rs]
Bol == [t |-> "bol"]

w == Set(WordChars)                 \* \w
ws == Set(SpaceChars)               \* \s
ws0 == Star(<<ws>>)                 \* \s*
ws1 == Plus(<<ws>>)                 \* \s+
w1 == Plus(<<w>>)                   \* \w+
dot == NotSet({"\n"})               \* .

\* the node matches the character at offset pos
Accepts(text, h, pos) == pos < Len(text) /\ ((At(text, pos) \in h.cs) # h.neg)

\* the number of characters from pos on that the set h accepts, one after another
Run(text, h, pos) ==
    CHOOSE n \in 0..(Len(text) - pos) :
        /\ ~Accepts(text, h, pos + n)
        /\ \A j \in 0..(n - 1) : Accepts(text, h, pos + j)

IsSet(r) == Len(r) = 1 /\ r[1].t = "set"

\* the backtracking matcher of re: the match of the node sequence k at pos, the
\* first one in the order re tries the alternatives
RECURSIVE Match(_, _, _, _), FirstOf(_, _, _, _, _), Greedy(_, _, _, _, _), Reluctant(_, _, _, _, _, _)
Match(text, k, pos, caps) ==
    IF Len(k) = 0 THEN [ok |-> TRUE, end |-> pos, caps |-> caps]
    ELSE
    LET h == Head(k)
        rest == Tail(k)
        After(n) == Match(text, rest, pos + n, caps)
    IN  CASE h.t = "set" ->
               IF Accepts(text, h, pos) THEN After(1) ELSE NoMatch
          [] h.t = "lit" ->
               IF pos + Len(h.s) <= Len(text) /\ Slice(text, pos, pos + Len(h.s)) = h.s
               THEN After(Len(h.s)) ELSE NoMatch
          [] h.t = "bol" ->
               IF pos = 0 THEN After(0) ELSE NoMatch
          [] h.t = "grp" ->
               Match(text, <<[t |-> "gs", i |-> h.i]>> \o h.r \o <<[t |-> "ge", i |-> h.i]>> \o rest,
                     pos, caps)
          [] h.t = "gs" ->
               Match(text, rest, pos, [caps EXCEPT ![h.i] = <<pos, -1>>])
          [] h.t = "ge" ->
               Match(text, rest, pos, [caps EXCEPT ![h.i] = <<caps[h.i][1], pos>>])
          [] h.t = "opt" ->
               LET r == Match(text, h.r \o rest, pos, caps)
               IN  IF r.ok THEN r ELSE After(0)
          [] h.t = "star" /\ IsSet(h.r) ->
               Greedy(text, rest, pos, caps, Run(text, h.r[1], pos))
          [] h.t = "star" /\ ~IsSet(h.r) ->
               LET r == Match(text, h.r \o <<h>> \o rest, pos, caps)
               IN  IF r.ok THEN r ELSE After(0)
          [] h.t = "plus" ->
               Match(text, h.r \o <<Star(h.r)>> \o rest, pos, caps)
          [] h.t = "lazy" /\ IsSet(h.r) ->
               Reluctant(text, rest, pos, caps, 0, Run(text, h.r[1], pos))
          [] h.t = "lazy" /\ ~IsSet(h.r) ->
               LET r == After(0)
               IN  IF r.ok THEN r ELSE Match(text, h.r \o <<h>> \o rest, pos, caps)
          [] h.t = "alt" ->
               FirstOf(text, h.rs, rest, pos, caps)

\* the alternatives rs, left to right: the match of the first one the rest matches after
FirstOf(text, rs, rest, pos, caps) ==
    IF Len(rs) = 0 THEN NoMatch
    ELSE LET r == Match(text, Head(rs) \o rest, pos, caps)
         IN  IF r.ok THEN r ELSE FirstOf(text, Tail(rs), rest, pos, caps)

\* a set under * or +: the longest run of at most n characters the rest matches after
Greedy(text, rest, pos, caps, n) ==
    LET r == Match(text, rest, pos + n, caps)
    IN  IF r.ok THEN r
        ELSE IF n = 0 THEN NoMatch
        ELSE Greedy(text, rest, pos, caps, n - 1)

\* a set under *?: the shortest run of n to run characters the rest matches after
Reluctant(text, rest, pos, caps, n, run) ==
    LET r == Match(text, rest, pos + n, caps)
    IN  IF r.ok THEN r
        ELSE IF n = run THEN NoMatch
        ELSE Reluctant(text, rest, pos, caps, n + 1, run)

\* re.search(pattern, text[from:]) re-based to text: the leftmost match at or after from
re_search(pattern, text, from) ==
    LET \* tries[f]: the match that starts at offset f
        Leftmost(tries) ==
            LET starts == {f \in DOMAIN tries : tries[f].ok}
                First(start) == [ok |-> TRUE, start |-> start,
                                 end |-> tries[start].end, caps |-> tries[start].caps]
            IN  IF starts = {} THEN NoMatch
                ELSE First(CHOOSE f \in starts : \A g \in starts : f <= g)
    IN  Leftmost([f \in from..Len(text) |->
                     Match(text, pattern, f, [i \in 1..MaxGroups |-> NoGroup])])

\* the non-overlapping matches at or after from, left to right, among tries
\* (tries[f]: the match that starts at offset f)
RECURSIVE finditer_from(_, _)
finditer_from(tries, from) ==
    LET starts == {f \in DOMAIN tries : f >= from /\ tries[f].ok}
        Matches(start) ==
            <<[ok |-> TRUE, start |-> start, end |-> tries[start].end,
               caps |-> tries[start].caps]>>
            \o finditer_from(tries, IF tries[start].end > start THEN tries[start].end
                                     ELSE tries[start].end + 1)
    IN  IF starts = {} THEN <<>>
        ELSE Matches(CHOOSE f \in starts : \A g \in starts : f <= g)

\* list(re.finditer(pattern, text))
finditer(pattern, text) ==
    finditer_from([f \in 0..Len(text) |->
                      Match(text, pattern, f, [i \in 1..MaxGroups |-> NoGroup])], 0)

\* match.group(i)
group(text, m, i) ==
    IF m.caps[i] = NoGroup THEN None ELSE Slice(text, m.caps[i][1], m.caps[i][2])

\* a or b, for Optional[str] operands
OrElse(a, b) == IF a = None \/ a = <<>> THEN b ELSE a

-----------------------------------------------------------------------------
(* os.path (posixpath), as called by analyze_project and _resolve_relative_import *)

Slash == <<"/">>

dirname(p) ==
    LET AllSlashes(s) == \A i \in 1..Len(s) : s[i] = "/"
        \* s.rfind('/') + 1
        RECURSIVE AfterLastSlash(_)
        AfterLastSlash(s) ==
            IF Len(s) = 0 THEN 0
            ELSE IF s[Len(s)] = "/" THEN Len(s)
            ELSE AfterLastSlash(SubSeq(s, 1, Len(s) - 1))
        head == Slice(p, 0, AfterLastSlash(p)) IN
    IF Len(head) > 0 /\ ~AllSlashes(head) THEN rstrip(head, {"/"}) ELSE head

path_join(a, b) ==
    IF startswith(b, Slash) THEN b
    ELSE IF Len(a) = 0 \/ endswith(a, Slash) THEN a \o b
    ELSE a \o Slash \o b

normpath(path) ==
    LET RECURSIVE NormComps(_, _, _)
        NormComps(comps, initial_slashes, new_comps) ==
            IF Len(comps) = 0 THEN new_comps
            ELSE
            LET comp == Head(comps) IN
            IF comp = <<>> \/ comp = <<".">> THEN NormComps(Tail(comps), initial_slashes, new_comps)
            ELSE IF comp # <<".",".">>
                    \/ (initial_slashes = 0 /\ Len(new_comps) = 0)
                    \/ (Len(new_comps) > 0 /\ new_comps[Len(new_comps)] = <<".",".">>)
                 THEN NormComps(Tail(comps), initial_slashes, Append(new_comps, comp))
            ELSE IF Len(new_comps) > 0
                 THEN NormComps(Tail(comps), initial_slashes, SubSeq(new_comps, 1, Len(new_comps) - 1))
            ELSE NormComps(Tail(comps), initial_slashes, new_comps)
        OrDot(joined) == IF Len(joined) = 0 THEN <<".">> ELSE joined
        Norm(initial_slashes) ==
            OrDot((IF initial_slashes = 2 THEN <<"/","/">>
                   ELSE IF initial_slashes = 1 THEN Slash ELSE <<>>)
                  \o join(Slash, NormComps(split(path, Slash), initial_slashes, <<>>)))
    IN  IF Len(path) = 0 THEN <<".">>
        ELSE Norm(IF ~startswith(path, Slash) THEN 0
                  ELSE IF startswith(path, <<"/","/">>) /\ ~startswith(path, <<"/","/","/">>) THEN 2
                  ELSE 1)

abspath(path, wd) ==
    normpath(IF startswith(path, Slash) THEN path ELSE path_join(wd, path))

relpath(path, start, wd) ==
    LET NonEmpty(s) == Len(s) > 0
        RECURSIVE commonprefix_len(_, _)
        commonprefix_len(a, b) ==
            IF Len(a) = 0 \/ Len(b) = 0 \/ Head(a) # Head(b) THEN 0
            ELSE 1 + commonprefix_len(Tail(a), Tail(b))
        Parts(p) == Filter(NonEmpty, split(p, Slash))
    IN
    Let(Parts(abspath(start, wd)), LAMBDA start_list :
    Let(Parts(abspath(path, wd)), LAMBDA path_list :
    Let(commonprefix_len(start_list, path_list), LAMBDA i :
    Let([j \in 1..(Len(start_list) - i) |-> <<".",".">>]
        \o SubSeq(path_list, i + 1, Len(path_list)), LAMBDA rel_list :
        IF Len(rel_list) = 0 THEN <<".">> ELSE join(Slash, rel_list)))))

-----------------------------------------------------------------------------
(* dict and set *)

\* d[k] = v on a dict kept as <<key, value>> pairs in insertion order
RECURSIVE dict_set(_, _, _)
dict_set(d, k, v) ==
    IF Len(d) = 0 THEN <<<<k, v>>>>
    ELSE IF Head(d)[1] = k THEN <<<<k, v>>>> \o Tail(d)
    ELSE <<Head(d)>> \o dict_set(Tail(d), k, v)

dict_has(d, k) == \E i \in 1..Len(d) : d[i][1] = k
dict_get(d, k) == d[CHOOSE i \in 1..Len(d) : d[i][1] = k][2]

\* s.add(x) on a set kept as the sequence of its members in insertion order
set_add(s, x) == IF x \in Range(s) THEN s ELSE Append(s, x)

\* list(s) of a set of str: the order is the hash table's, fixed by the process's
\* hash seed, the members and the insertions.  Any order of the members is the order
\* of some seed, and the orders of two different sets of one process do not depend on
\* each other.  A seed is kept as what it does: the function from the sets the process
\* lists (each the sequence of its members in insertion order) to the number of the
\* order it gives them, 0 the order of insertion; the same set is listed in the same
\* order throughout the process.  InsertionOrder is the seed that holds no set.
InsertionOrder == [s \in {} |-> 0]

list_of_set(s, seed) ==
    LET RECURSIVE Factorial(_)
        Factorial(n) == IF n <= 1 THEN 1 ELSE n * Factorial(n - 1)
        Without(members, i) == SubSeq(members, 1, i - 1) \o SubSeq(members, i + 1, Len(members))
        \* the k-th order of the members, 0 <= k < Len(members)!
        RECURSIVE Order(_, _)
        Order(members, k) ==
            IF Len(members) <= 1 THEN members
            ELSE LET rest == Factorial(Len(members) - 1)
                     first == (k \div rest) + 1
                 IN  <<members[first]>> \o Order(Without(members, first), k % rest)
    IN  Order(s, IF s \in DOMAIN seed THEN seed[s] % Factorial(Len(s)) ELSE 0)

\* result.get(key, [])
get_list(result, key) == IF key \in DOMAIN result THEN result[key] ELSE <<>>

-----------------------------------------------------------------------------
(* CodeAnalyzer *)

\* what ast.parse raises on a text that is not Python
SyntaxError == [type |-> "SyntaxError"]
\* None where a tree node is expected (no annotation, no tree parsed yet)
NoNode == [type |-> "NoNode"]

CodeAnalyzer(file_path, content) ==
    [file_path |-> file_path, content |-> content, _parsed_ast |-> NoNode,
     _classes |-> None, _functions |-> None, _imports |-> None]

\* _find_class_content had it stopped at the first '}', whatever the nesting
_find_class_content_first_close(content, start_pos) ==
    LET brace_pos == find(content, <<"{">>, start_pos)
        end_pos == find(content, <<"}">>, brace_pos + 1)
    IN  IF brace_pos < 0 \/ end_pos < 0 THEN None
        ELSE Slice(content, brace_pos + 1, end_pos)

_find_class_content(content, start_pos) ==
    LET brace_pos == find(content, <<"{">>, start_pos)
        \* the offset of the next brace at or after i, Len(content) without one: the
        \* loop leaves brace_level alone at every other character
        NextBrace(i) ==
            LET at == {j \in i..(Len(content) - 1) : At(content, j) \in {"{", "}"}}
            IN  IF at = {} THEN Len(content) ELSE CHOOSE j \in at : \A k \in at : j <= k
        \* the offset of the '}' that brings brace_level back to 0, -1 without one
        RECURSIVE ScanClose(_, _)
        ScanClose(from, brace_level) ==
            Let(NextBrace(from), LAMBDA i :
                IF i >= Len(content) THEN -1
                ELSE IF At(content, i) = "{" THEN ScanClose(i + 1, brace_level + 1)
                ELSE IF brace_level - 1 = 0 THEN i ELSE ScanClose(i + 1, brace_level - 1))
        end_pos == ScanClose(brace_pos + 1, 1)
    IN  IF brace_pos < 0 \/ end_pos < 0 THEN None
        ELSE Slice(content, brace_pos + 1, end_pos)

\* `if class_content:` -- neither None nor empty
Truthy(s) == s # None /\ s # <<>>

(* _parse_javascript *)

NameOf(content, m) == [name |-> group(content, m, 1)]

RECURSIVE set_from(_)
set_from(seq) == IF Len(seq) = 0 THEN <<>> ELSE set_add(set_from(SubSeq(seq, 1, Len(seq) - 1)), seq[Len(seq)])

_parse_javascript(content, seed) ==
    LET import_regex ==
            <<Lit(<<"i","m","p","o","r","t">>), ws1,
              Alt(<< <<Lit(<<"{">>), Grp(1, <<Plus(<<NotSet({"}"})>>)>>), Lit(<<"}">>)>>,
                     <<Grp(2, <<Plus(<<NotSet({";"})>>)>>)>> >>),
              ws1, Lit(<<"f","r","o","m">>), ws1, Set({"'", "\""}),
              Grp(3, <<Plus(<<NotSet({"'", "\""})>>)>>), Set({"'", "\""})>>
        class_regex ==
            <<Lit(<<"c","l","a","s","s">>), ws1, Grp(1, <<w1>>),
              Opt(<<ws1, Lit(<<"e","x","t","e","n","d","s">>), ws1, Grp(2, <<w1>>)>>)>>
        method_regex ==
            <<Opt(<<Lit(<<"a","s","y","n","c">>), ws1>>), Opt(<<Lit(<<"s","t","a","t","i","c">>), ws1>>),
              Opt(<<Alt(<< <<Lit(<<"g","e","t">>)>>, <<Lit(<<"s","e","t">>)>> >>)>>), ws0,
              Grp(1, <<w1>>), ws0, Lit(<<"(">>), Star(<<NotSet({")"})>>), Lit(<<")">>), ws0,
              Lit(<<"{">>),
              Star(<<Alt(<< <<NotSet({"{", "}"})>>,
                            <<Lit(<<"{">>), Star(<<NotSet({"{", "}"})>>), Lit(<<"}">>)>> >>)>>),
              Lit(<<"}">>)>>
        function_regex ==
            <<Alt(<< <<Lit(<<"f","u","n","c","t","i","o","n">>)>>, <<Lit(<<"c","o","n","s","t">>)>>, <<Lit(<<"l","e","t">>)>>, <<Lit(<<"v","a","r">>)>> >>),
              ws1, Grp(1, <<w1>>), ws0, Opt(<<Lit(<<"=">>)>>), ws0,
              Alt(<< <<Lit(<<"(">>), Star(<<NotSet({")"})>>), Lit(<<")">>)>>,
                     <<Lit(<<"(">>), Star(<<NotSet({")"})>>), Lit(<<")">>), ws0, Lit(<<"=",">">>), ws0>> >>)>>
        not_methods == {<<"c","o","n","s","t","r","u","c","t","o","r">>, <<"i","f">>, <<"f","o","r">>, <<"w","h","i","l","e">>, <<"s","w","i","t","c","h">>}
        Methods(class_content) ==
            IF ~Truthy(class_content) THEN <<>>
            ELSE LET Named(m) == NameOf(class_content, m)
                     Kept(f) == f.name \notin not_methods
                 IN  Filter(Kept, Map(Named, finditer(method_regex, class_content)))
        Import(m) == [source |-> group(content, m, 3),
                      imported |-> OrElse(group(content, m, 1), group(content, m, 2))]
        Source(i) == i.source
        Class(m) == [name |-> group(content, m, 1),
                     extends |-> group(content, m, 2),
                     methods |-> Methods(_find_class_content(content, m.end))]
        Function(m) == NameOf(content, m)
        imports == Map(Import, finditer(import_regex, content))
    IN  [language |-> <<"j","a","v","a","s","c","r","i","p","t">>,
         imports |-> imports,
         classes |-> Map(Class, finditer(class_regex, content)),
         functions |-> Map(Function, finditer(function_regex, content)),
         dependencies |-> list_of_set(set_from(Map(Source, imports)), seed)]

(* _parse_java *)

Visibility == Alt(<< <<Lit(<<"p","u","b","l","i","c">>)>>, <<Lit(<<"p","r","i","v","a","t","e">>)>>, <<Lit(<<"p","r","o","t","e","c","t","e","d">>)>> >>)

\* [i.strip() for i in g.split(',')] if g else []
SplitNames(g) == IF ~Truthy(g) THEN <<>> ELSE Map(strip, split(g, <<",">>))

_parse_java(content, seed) ==
    LET package_regex == <<Lit(<<"p","a","c","k","a","g","e">>), ws1, Grp(1, <<Plus(<<NotSet({";"})>>)>>), Lit(<<";">>)>>
        import_regex == <<Lit(<<"i","m","p","o","r","t">>), ws1, Grp(1, <<Plus(<<NotSet({";"})>>)>>), Lit(<<";">>)>>
        class_regex ==
            <<Opt(<<Visibility>>), ws1, Lit(<<"c","l","a","s","s">>), ws1, Grp(1, <<w1>>),
              Opt(<<ws1, Lit(<<"e","x","t","e","n","d","s">>), ws1, Grp(2, <<w1>>)>>),
              Opt(<<ws1, Lit(<<"i","m","p","l","e","m","e","n","t","s">>), ws1, Grp(3, <<Plus(<<NotSet({"{"})>>)>>)>>)>>
        interface_regex ==
            <<Opt(<<Visibility>>), ws1, Lit(<<"i","n","t","e","r","f","a","c","e">>), ws1, Grp(1, <<w1>>),
              Opt(<<ws1, Lit(<<"e","x","t","e","n","d","s">>), ws1, Grp(2, <<Plus(<<NotSet({"{"})>>)>>)>>)>>
        package_match == re_search(package_regex, content, 0)
        Path(m) == group(content, m, 1)
        Class(m) == [name |-> group(content, m, 1),
                     extends |-> group(content, m, 2),
                     implements |-> SplitNames(group(content, m, 3))]
        Interface(m) == [name |-> group(content, m, 1),
                         extends |-> SplitNames(group(content, m, 2))]
        imports == Map(Path, finditer(import_regex, content))
    IN  [language |-> <<"j","a","v","a">>,
         package |-> IF package_match.ok THEN group(content, package_match, 1) ELSE None,
         imports |-> imports,
         classes |-> Map(Class, finditer(class_regex, content)),
         interfaces |-> Map(Interface, finditer(interface_regex, content)),
         dependencies |-> list_of_set(set_from(imports), seed)]

(* _parse_cpp *)

Generics == Opt(<<Lit(<<"<">>), Star(<<NotSet({">"})>>), Lit(<<">">>)>>)   \* (?:<[^>]*>)?
Params == <<Lit(<<"(">>), Star(<<NotSet({")"})>>), Lit(<<")">>)>>          \* \([^)]*\)

_parse_cpp(content, seed) ==
    LET include_regex ==
            <<Lit(<<"#","i","n","c","l","u","d","e">>), ws1, Set({"<", "\""}), Grp(1, <<Plus(<<NotSet({">", "\""})>>)>>),
              Set({">", "\""})>>
        class_regex ==
            <<Alt(<< <<Lit(<<"c","l","a","s","s">>)>>, <<Lit(<<"s","t","r","u","c","t">>)>> >>), ws1, Grp(1, <<w1>>),
              Opt(<<ws0, Lit(<<":">>), ws0, Opt(<<Visibility>>), ws0, Grp(2, <<w1>>)>>)>>
        function_regex ==
            <<Opt(<<Lit(<<"v","i","r","t","u","a","l">>), ws1>>), Opt(<<Lit(<<"s","t","a","t","i","c">>), ws1>>),
              w1, Opt(<<Lit(<<":",":">>), w1>>), Generics, ws1, Grp(1, <<w1>>), ws0>> \o Params
        not_functions == {<<"i","f">>, <<"f","o","r">>, <<"w","h","i","l","e">>, <<"s","w","i","t","c","h">>}
        Path(m) == group(content, m, 1)
        Class(m) == [name |-> group(content, m, 1), parent |-> group(content, m, 2)]
        Function(m) == NameOf(content, m)
        Kept(f) == f.name \notin not_functions
        includes == Map(Path, finditer(include_regex, content))
    IN  [language |-> <<"c","+","+">>,
         includes |-> includes,
         classes |-> Map(Class, finditer(class_regex, content)),
         functions |-> Filter(Kept, Map(Function, finditer(function_regex, content))),
         dependencies |-> list_of_set(set_from(includes), seed)]

(* _parse_solidity *)

_parse_solidity(content, seed) ==
    LET pragma_regex ==
            <<Lit(<<"p","r","a","g","m","a">>), ws1, Lit(<<"s","o","l","i","d","i","t","y">>), ws1, Grp(1, <<Plus(<<NotSet({";"})>>)>>), Lit(<<";">>)>>
        import_regex ==
            <<Lit(<<"i","m","p","o","r","t">>), ws1,
              Alt(<< <<Lit(<<"\"">>), Grp(1, <<Plus(<<NotSet({"\""})>>)>>), Lit(<<"\"">>)>>,
                     <<Lit(<<"'">>), Grp(2, <<Plus(<<NotSet({"'"})>>)>>), Lit(<<"'">>)>> >>)>>
        contract_regex ==
            <<Lit(<<"c","o","n","t","r","a","c","t">>), ws1, Grp(1, <<w1>>),
              Opt(<<ws1, Lit(<<"i","s">>), ws1, Grp(2, <<Plus(<<NotSet({"{"})>>)>>)>>)>>
        function_regex ==
            <<Lit(<<"f","u","n","c","t","i","o","n">>), ws1, Grp(1, <<w1>>), ws0>> \o Params \o
            <<ws0,
              Opt(<<Alt(<< <<Lit(<<"p","u","b","l","i","c">>)>>, <<Lit(<<"p","r","i","v","a","t","e">>)>>,
                           <<Lit(<<"i","n","t","e","r","n","a","l">>)>>, <<Lit(<<"e","x","t","e","r","n","a","l">>)>> >>)>>),
              Opt(<<Alt(<< <<ws1, Lit(<<"v","i","e","w">>)>>, <<ws1, Lit(<<"p","u","r","e">>)>>, <<ws1, Lit(<<"p","a","y","a","b","l","e">>)>> >>)>>),
              ws0, Opt(<<Lit(<<"r","e","t","u","r","n","s">>), ws0>> \o Params), ws0, Set({"{", ";"})>>
        interface_regex ==
            <<Lit(<<"i","n","t","e","r","f","a","c","e">>), ws1, Grp(1, <<w1>>),
              Opt(<<ws1, Lit(<<"i","s">>), ws1, Grp(2, <<Plus(<<NotSet({"{"})>>)>>)>>)>>
        Functions(contract_content) ==
            IF ~Truthy(contract_content) THEN <<>>
            ELSE LET Named(m) == NameOf(contract_content, m)
                 IN  Map(Named, finditer(function_regex, contract_content))
        pragma_match == re_search(pragma_regex, content, 0)
        Path(m) == OrElse(group(content, m, 1), group(content, m, 2))
        Contract(m) == [name |-> group(content, m, 1),
                        inherits |-> SplitNames(group(content, m, 2)),
                        functions |-> Functions(_find_class_content(content, m.end))]
        Interface(m) == [name |-> group(content, m, 1),
                         inherits |-> SplitNames(group(content, m, 2))]
        imports == Map(Path, finditer(import_regex, content))
    IN  [language |-> <<"s","o","l","i","d","i","t","y">>,
         pragma |-> IF pragma_match.ok THEN group(content, pragma_match, 1) ELSE None,
         imports |-> imports,
         contracts |-> Map(Contract, finditer(contract_regex, content)),
         interfaces |-> Map(Interface, finditer(interface_regex, content)),
         dependencies |-> list_of_set(set_from(imports), seed)]

(* _parse_golang *)

_parse_golang(content, seed) ==
    LET package_regex == <<Lit(<<"p","a","c","k","a","g","e">>), ws1, Grp(1, <<w1>>)>>
        \* import\s+\(\s*(.*?)\s*\) under re.DOTALL
        import_block_regex ==
            <<Lit(<<"i","m","p","o","r","t">>), ws1, Lit(<<"(">>), ws0, Grp(1, <<Lazy(<<NotSet({})>>)>>), ws0, Lit(<<")">>)>>
        alias == Opt(<<Plus(<<Set(WordChars \cup {".", "_", "/"})>>), ws1>>)   \* (?:[\w._/]+\s+)?
        quoted == <<Lit(<<"\"">>), Grp(1, <<Plus(<<NotSet({"\""})>>)>>), Lit(<<"\"">>)>>
        import_regex == <<alias>> \o quoted
        single_import_regex == <<Lit(<<"i","m","p","o","r","t">>), ws1, alias>> \o quoted
        struct_regex ==
            <<Lit(<<"t","y","p","e">>), ws1, Grp(1, <<w1>>), ws1, Lit(<<"s","t","r","u","c","t">>), ws0, Lit(<<"{">>)>>
        interface_regex ==
            <<Lit(<<"t","y","p","e">>), ws1, Grp(1, <<w1>>), ws1, Lit(<<"i","n","t","e","r","f","a","c","e">>), ws0, Lit(<<"{">>)>>
        function_regex ==
            <<Lit(<<"f","u","n","c">>), ws1,
              Opt(<<Lit(<<"(">>), ws0, w1, ws1, Opt(<<Lit(<<"*">>)>>), w1, ws0, Lit(<<")">>), ws1>>),
              Grp(1, <<w1>>), ws0>> \o Params
        package_match == re_search(package_regex, content, 0)
        import_block_match == re_search(import_block_regex, content, 0)
        import_content == group(content, import_block_match, 1)
        BlockPath(m) == group(import_content, m, 1)
        Path(m) == group(content, m, 1)
        Named(m) == NameOf(content, m)
        imports == IF import_block_match.ok
                   THEN Map(BlockPath, finditer(import_regex, import_content))
                   ELSE Map(Path, finditer(single_import_regex, content))
    IN  [language |-> <<"g","o">>,
         package |-> IF package_match.ok THEN group(content, package_match, 1) ELSE None,
         imports |-> imports,
         structs |-> Map(Named, finditer(struct_regex, content)),
         interfaces |-> Map(Named, finditer(interface_regex, content)),
         functions |-> Map(Named, finditer(function_regex, content)),
         dependencies |-> list_of_set(set_from(imports), seed)]

(* _parse_rust *)

_get_impl_ranges(content) ==
    LET impl_regex ==
            <<Lit(<<"i","m","p","l">>), Generics, ws1, Opt(<<w1, ws1, Lit(<<"f","o","r">>), ws1>>),
              w1, Generics, ws0, Lit(<<"{">>)>>
        \* the offset of the '}' that closes the block opened just before offset i
        \* (brace_level reaches -1), -1 when the text ends first
        RECURSIVE ScanImplEnd(_, _)
        ScanImplEnd(i, brace_level) ==
            IF i >= Len(content) THEN -1
            ELSE IF At(content, i) = "{" THEN ScanImplEnd(i + 1, brace_level + 1)
            ELSE IF At(content, i) = "}"
                 THEN (IF brace_level - 1 = -1 THEN i ELSE ScanImplEnd(i + 1, brace_level - 1))
            ELSE ScanImplEnd(i + 1, brace_level)
        Span(m) == <<m.start, ScanImplEnd(m.end, 0)>>
        Closed(r) == r[2] > 0          \* `if end_pos:`
    IN  Filter(Closed, Map(Span, finditer(impl_regex, content)))

_parse_rust(content, seed) ==
    LET use_regex == <<Lit(<<"u","s","e">>), ws1, Grp(1, <<Plus(<<NotSet({";"})>>)>>), Lit(<<";">>)>>
        struct_regex ==
            <<Lit(<<"s","t","r","u","c","t">>), ws1, Grp(1, <<w1>>), Generics, ws0,
              Alt(<<Params, <<Lit(<<"{">>)>> >>)>>
        enum_regex == <<Lit(<<"e","n","u","m">>), ws1, Grp(1, <<w1>>), Generics, ws0, Lit(<<"{">>)>>
        impl_regex ==
            <<Lit(<<"i","m","p","l">>), Generics, ws1, Opt(<<Grp(1, <<w1>>), ws1, Lit(<<"f","o","r">>), ws1>>),
              Grp(2, <<w1>>), Generics, ws0, Lit(<<"{">>)>>
        trait_regex ==
            <<Lit(<<"t","r","a","i","t">>), ws1, Grp(1, <<w1>>), Generics, ws0,
              Opt(<<Lit(<<":">>), ws0, Plus(<<NotSet({"{"})>>)>>), Lit(<<"{">>)>>
        function_regex ==
            <<Opt(<<Lit(<<"p","u","b">>), ws1>>), Lit(<<"f","n">>), ws1, Grp(1, <<w1>>), ws0>> \o Params
        Methods(impl_content) ==
            IF ~Truthy(impl_content) THEN <<>>
            ELSE LET Named(m) == NameOf(impl_content, m)
                 IN  Map(Named, finditer(function_regex, impl_content))
        Path(m) == group(content, m, 1)
        Crate(use_path) == split(use_path, <<":",":">>)[1]
        Named(m) == NameOf(content, m)
        Impl(m) == [type |-> group(content, m, 2),
                    trait |-> group(content, m, 1),
                    methods |-> Methods(_find_class_content(content, m.end))]
        ranges == _get_impl_ranges(content)
        TopLevel(m) == ~\E i \in 1..Len(ranges) : m.start > ranges[i][1] /\ m.end < ranges[i][2]
        imports == Map(Path, finditer(use_regex, content))
    IN  [language |-> <<"r","u","s","t">>,
         imports |-> imports,
         structs |-> Map(Named, finditer(struct_regex, content)),
         enums |-> Map(Named, finditer(enum_regex, content)),
         impls |-> Map(Impl, finditer(impl_regex, content)),
         traits |-> Map(Named, finditer(trait_regex, content)),
         functions |-> Map(Named, Filter(TopLevel, finditer(function_regex, content))),
         dependencies |-> list_of_set(set_from(Map(Crate, imports)), seed)]

(* _parse_generic and _detect_language *)

Dotted == Plus(<<Set(WordChars \cup {"."})>>)                        \* [\w.]+

\* _detect_language had it looked for the Python signature before the C/C++ one
_detect_language_python_before_cpp(content) ==
    LET Html_signature ==
            <<Alt(<< <<Bol, ws0, Lit(<<"<">>), Set({"?", "!"})>>,
                     <<Lit(<<"<">>), Set({"h", "H"}), Set({"t", "T"}), Set({"m", "M"}), Set({"l", "L"})>> >>)>>
        Jsx_signature ==
            <<Alt(<< <<Lit(<<"i","m","p","o","r","t">>), ws1, Lit(<<"R","e","a","c","t">>)>>,
                     <<Lit(<<"<">>), Opt(<<Lit(<<"/">>)>>), Set(Upper), Star(<<Set(Upper \cup Lower)>>), Lit(<<">">>)>> >>)>>
        Esm_signature ==
            <<Lit(<<"i","m","p","o","r","t">>), ws1, Set({"{", "["}), ws0, Lazy(<<dot>>), ws0, Set({"}", "]"}), ws1,
              Lit(<<"f","r","o","m">>)>>
        Java_signature ==
            <<Alt(<< <<Lit(<<"p","a","c","k","a","g","e">>), ws1, Dotted, Lit(<<";">>)>>,
                     <<Lit(<<"i","m","p","o","r","t">>), ws1, Dotted, Lit(<<";">>)>>,
                     <<Lit(<<"p","u","b","l","i","c">>), ws1, Lit(<<"c","l","a","s","s">>)>> >>)>>
        Cpp_signature ==
            <<Alt(<< <<Lit(<<"#","i","n","c","l","u","d","e">>), ws1, Lit(<<"<">>), Dotted, Lit(<<">">>)>>,
                     <<Lit(<<"v","o","i","d">>), ws1, w1, ws0, Lit(<<"(">>)>> >>)>>
        Python_signature ==
            <<Alt(<< <<Lit(<<"d","e","f">>), ws1, w1, ws0, Lit(<<"(">>), Star(<<dot>>), Lit(<<")",":">>)>>,
                     <<Lit(<<"i","m","p","o","r","t">>), ws1, w1>>,
                     <<Lit(<<"f","r","o","m">>), ws1, w1, ws1, Lit(<<"i","m","p","o","r","t">>)>> >>)>>
        Go_signature ==
            <<Alt(<< <<Lit(<<"p","a","c","k","a","g","e">>), ws1, w1>>,
                     <<Lit(<<"f","u","n","c">>), ws1, w1, ws0, Lit(<<"(">>)>>,
                     <<Lit(<<"i","m","p","o","r","t">>), ws1, Lit(<<"(">>)>> >>)>>
        Rust_signature ==
            <<Alt(<< <<Lit(<<"u","s","e">>), ws1, w1, Lit(<<":",":">>)>>,
                     <<Lit(<<"f","n">>), ws1, w1, ws0, Lit(<<"(">>)>>,
                     <<Lit(<<"i","m","p","l">>), ws1>> >>)>>
        Solidity_signature ==
            <<Alt(<< <<Lit(<<"p","r","a","g","m","a">>), ws1, Lit(<<"s","o","l","i","d","i","t","y">>)>>,
                     <<Lit(<<"c","o","n","t","r","a","c","t">>), ws1, w1>>,
                     <<Lit(<<"f","u","n","c","t","i","o","n">>), ws1, w1, ws0, Lit(<<"(">>), Star(<<dot>>), Lit(<<")">>), ws0,
                       Lit(<<"p","u","b","l","i","c">>)>> >>)>>
        Found(pattern) == re_search(pattern, content, 0).ok
    IN  IF Found(Html_signature) THEN <<"h","t","m","l">>
    ELSE IF Found(Jsx_signature) THEN <<"j","s","x","/","t","s","x">>
    ELSE IF Found(Esm_signature) THEN <<"j","a","v","a","s","c","r","i","p","t","/","t","y","p","e","s","c","r","i","p","t">>
    ELSE IF Found(Java_signature) THEN <<"j","a","v","a">>
    ELSE IF Found(Python_signature) THEN <<"p","y","t","h","o","n">>
    ELSE IF Found(Cpp_signature) THEN <<"c","/","c","+","+">>
    ELSE IF Found(Go_signature) THEN <<"g","o">>
    ELSE IF Found(Rust_signature) THEN <<"r","u","s","t">>
    ELSE IF Found(Solidity_signature) THEN <<"s","o","l","i","d","i","t","y">>
    ELSE <<"u","n","k","n","o","w","n">>

_detect_language(content) ==
    LET Html_signature ==
            <<Alt(<< <<Bol, ws0, Lit(<<"<">>), Set({"?", "!"})>>,
                     <<Lit(<<"<">>), Set({"h", "H"}), Set({"t", "T"}), Set({"m", "M"}), Set({"l", "L"})>> >>)>>
        Jsx_signature ==
            <<Alt(<< <<Lit(<<"i","m","p","o","r","t">>), ws1, Lit(<<"R","e","a","c","t">>)>>,
                     <<Lit(<<"<">>), Opt(<<Lit(<<"/">>)>>), Set(Upper), Star(<<Set(Upper \cup Lower)>>), Lit(<<">">>)>> >>)>>
        Esm_signature ==
            <<Lit(<<"i","m","p","o","r","t">>), ws1, Set({"{", "["}), ws0, Lazy(<<dot>>), ws0, Set({"}", "]"}), ws1,
              Lit(<<"f","r","o","m">>)>>
        Java_signature ==
            <<Alt(<< <<Lit(<<"p","a","c","k","a","g","e">>), ws1, Dotted, Lit(<<";">>)>>,
                     <<Lit(<<"i","m","p","o","r","t">>), ws1, Dotted, Lit(<<";">>)>>,
                     <<Lit(<<"p","u","b","l","i","c">>), ws1, Lit(<<"c","l","a","s","s">>)>> >>)>>
        Cpp_signature ==
            <<Alt(<< <<Lit(<<"#","i","n","c","l","u","d","e">>), ws1, Lit(<<"<">>), Dotted, Lit(<<">">>)>>,
                     <<Lit(<<"v","o","i","d">>), ws1, w1, ws0, Lit(<<"(">>)>> >>)>>
        Python_signature ==
            <<Alt(<< <<Lit(<<"d","e","f">>), ws1, w1, ws0, Lit(<<"(">>), Star(<<dot>>), Lit(<<")",":">>)>>,
                     <<Lit(<<"i","m","p","o","r","t">>), ws1, w1>>,
                     <<Lit(<<"f","r","o","m">>), ws1, w1, ws1, Lit(<<"i","m","p","o","r","t">>)>> >>)>>
        Go_signature ==
            <<Alt(<< <<Lit(<<"p","a","c","k","a","g","e">>), ws1, w1>>,
                     <<Lit(<<"f","u","n","c">>), ws1, w1, ws0, Lit(<<"(">>)>>,
                     <<Lit(<<"i","m","p","o","r","t">>), ws1, Lit(<<"(">>)>> >>)>>
        Rust_signature ==
            <<Alt(<< <<Lit(<<"u","s","e">>), ws1, w1, Lit(<<":",":">>)>>,
                     <<Lit(<<"f","n">>), ws1, w1, ws0, Lit(<<"(">>)>>,
                     <<Lit(<<"i","m","p","l">>), ws1>> >>)>>
        Solidity_signature ==
            <<Alt(<< <<Lit(<<"p","r","a","g","m","a">>), ws1, Lit(<<"s","o","l","i","d","i","t","y">>)>>,
                     <<Lit(<<"c","o","n","t","r","a","c","t">>), ws1, w1>>,
                     <<Lit(<<"f","u","n","c","t","i","o","n">>), ws1, w1, ws0, Lit(<<"(">>), Star(<<dot>>), Lit(<<")">>), ws0,
                       Lit(<<"p","u","b","l","i","c">>)>> >>)>>
        Found(pattern) == re_search(pattern, content, 0).ok
    IN  IF Found(Html_signature) THEN <<"h","t","m","l">>
    ELSE IF Found(Jsx_signature) THEN <<"j","s","x","/","t","s","x">>
    ELSE IF Found(Esm_signature) THEN <<"j","a","v","a","s","c","r","i","p","t","/","t","y","p","e","s","c","r","i","p","t">>
    ELSE IF Found(Java_signature) THEN <<"j","a","v","a">>
    ELSE IF Found(Cpp_signature) THEN <<"c","/","c","+","+">>
    ELSE IF Found(Python_signature) THEN <<"p","y","t","h","o","n">>
    ELSE IF Found(Go_signature) THEN <<"g","o">>
    ELSE IF Found(Rust_signature) THEN <<"r","u","s","t">>
    ELSE IF Found(Solidity_signature) THEN <<"s","o","l","i","d","i","t","y">>
    ELSE <<"u","n","k","n","o","w","n">>

_parse_generic(content) ==
    LET function_patterns ==
            <<<<Lit(<<"f","u","n","c","t","i","o","n">>), ws1, Grp(1, <<w1>>), ws0, Lit(<<"(">>)>>,
              <<Lit(<<"d","e","f">>), ws1, Grp(1, <<w1>>), ws0, Lit(<<"(">>)>>,
              <<Lit(<<"s","u","b">>), ws1, Grp(1, <<w1>>), ws0, Lit(<<"{">>)>>,
              <<Lit(<<"f","u","n","c">>), ws1, Grp(1, <<w1>>), ws0, Lit(<<"(">>)>>,
              <<Lit(<<"v","o","i","d">>), ws1, Grp(1, <<w1>>), ws0, Lit(<<"(">>)>>,
              <<Lit(<<"i","n","t">>), ws1, Grp(1, <<w1>>), ws0, Lit(<<"(">>)>>,
              <<Lit(<<"s","t","r","i","n","g">>), ws1, Grp(1, <<w1>>), ws0, Lit(<<"(">>)>>,
              <<Lit(<<"s","t","a","t","i","c">>), ws1, w1, ws1, Grp(1, <<w1>>), ws0, Lit(<<"(">>)>> >>
        class_patterns ==
            <<<<Lit(<<"c","l","a","s","s">>), ws1, Grp(1, <<w1>>)>>,
              <<Lit(<<"i","n","t","e","r","f","a","c","e">>), ws1, Grp(1, <<w1>>)>>,
              <<Lit(<<"s","t","r","u","c","t">>), ws1, Grp(1, <<w1>>)>>,
              <<Lit(<<"t","y","p","e">>), ws1, Grp(1, <<w1>>), ws1, Lit(<<"s","t","r","u","c","t">>)>>,
              <<Lit(<<"t","r","a","i","t">>), ws1, Grp(1, <<w1>>)>>,
              <<Lit(<<"m","o","d","u","l","e">>), ws1, Grp(1, <<w1>>)>> >>
        Named(m) == NameOf(content, m)
        \* the names every pattern finds, in pattern order then text order
        RECURSIVE AllNames(_)
        AllNames(patterns) ==
            IF Len(patterns) = 0 THEN <<>>
            ELSE Map(Named, finditer(Head(patterns), content)) \o AllNames(Tail(patterns))
        \* `if name not in [f["name"] for f in found]: found.append(...)`
        Names(patterns) == set_from(AllNames(patterns))
    IN  [language |-> _detect_language(content),
         functions |-> Names(function_patterns),
         classes |-> Names(class_patterns),
         is_generic_analysis |-> TRUE]

-----------------------------------------------------------------------------
(* PythonCodeVisitor.  A tree node is a record with its class name in `type`; *)
(* a statement keeps its child statements, in ast.iter_fields order, in       *)
(* `body`.  A Python value (a default, a constant) is tagged with its type.   *)

PyInt(n) == [py |-> "int", v |-> n]
PyStr(s) == [py |-> "str", v |-> s]
PyBool(b) == [py |-> "bool", v |-> b]
PyList(l) == [py |-> "list", v |-> l]
PyDict(d) == [py |-> "dict", v |-> d]
PyNone == [py |-> "NoneType", v |-> None]

\* str(value) of a constant
str(value) ==
    LET Digits == <<"0","1","2","3","4","5","6","7","8","9">>
        RECURSIVE str_int(_)
        str_int(n) == IF n < 10 THEN <<Digits[n + 1]>> ELSE str_int(n \div 10) \o <<Digits[(n % 10) + 1]>>
    IN  CASE value.py = "int" -> IF value.v < 0 THEN <<"-">> \o str_int(-value.v) ELSE str_int(value.v)
      [] value.py = "str" -> value.v
      [] value.py = "bool" -> IF value.v THEN <<"T","r","u","e">> ELSE <<"F","a","l","s","e">>
      [] value.py = "NoneType" -> <<"N","o","n","e">>

\* type(value).__name__ and node.__class__.__name__ as str
TypeName(t) ==
    CASE t = "int" -> <<"i","n","t">> [] t = "str" -> <<"s","t","r">> [] t = "bool" -> <<"b","o","o","l">>
      [] t = "NoneType" -> <<"N","o","n","e","T","y","p","e">> [] t = "NoNode" -> <<"N","o","n","e","T","y","p","e">>
      [] t = "BinOp" -> <<"B","i","n","O","p">> [] t = "UnaryOp" -> <<"U","n","a","r","y","O","p">> [] t = "Lambda" -> <<"L","a","m","b","d","a">>
      [] t = "List" -> <<"L","i","s","t">> [] t = "Tuple" -> <<"T","u","p","l","e">> [] t = "Set" -> <<"S","e","t">>
      [] t = "Dict" -> <<"D","i","c","t">> [] t = "Starred" -> <<"S","t","a","r","r","e","d">>

RECURSIVE _get_name(_)
_get_name(node) ==
    CASE node.type = "Name" -> node.id
      [] node.type = "Attribute" -> _get_name(node.value) \o <<".">> \o node.attr
      [] node.type = "Subscript" ->
             _get_name(node.value) \o <<"[">> \o _get_name(node.slice) \o <<"]">>
      [] node.type = "Call" -> _get_name(node.func) \o <<"(",")">>
      [] node.type = "Constant" -> str(node.value)
      [] OTHER -> TypeName(node.type)

\* Every method returns [raised, value]: raised names the exception it raised.
Returned(value) == [raised |-> "", value |-> value]
Raised(exception) == [raised |-> exception, value |-> None]

RECURSIVE _get_default_value(_)
_get_default_value(node) ==
    LET \* [f(elt) for elt in elts]: the first exception ends the comprehension
        RECURSIVE Elements(_, _)
        Elements(elts, values) ==
            IF Len(elts) = 0 THEN Returned(PyList(values))
            ELSE Let(_get_default_value(Head(elts)), LAMBDA elt :
                     IF elt.raised # "" THEN elt
                     ELSE Elements(Tail(elts), Append(values, elt.value)))
        \* hash(key): a list and a dict are unhashable
        Hashable(key) == key.py \notin {"list", "dict"}
        \* key == other, under which True == 1 and False == 0
        Number(key) == IF key.py = "bool" THEN (IF key.v THEN 1 ELSE 0) ELSE key.v
        SameKey(key, other) ==
            IF key.py \in {"int", "bool"} /\ other.py \in {"int", "bool"}
            THEN Number(key) = Number(other)
            ELSE key.py = other.py /\ key.v = other.v
        \* d[key] = value: an equal key keeps its place and its first spelling
        RECURSIVE Store(_, _, _)
        Store(d, key, value) ==
            IF Len(d) = 0 THEN <<<<key, value>>>>
            ELSE IF SameKey(Head(d)[1], key) THEN <<<<Head(d)[1], value>>>> \o Tail(d)
            ELSE <<Head(d)>> \o Store(Tail(d), key, value)
        \* {f(k): f(v) for k, v in zip(keys, values)}
        RECURSIVE Items(_, _)
        Items(i, d) ==
            IF i > Len(node.keys) \/ i > Len(node.values) THEN Returned(PyDict(d))
            ELSE Let(_get_default_value(node.keys[i]), LAMBDA key :
                     IF key.raised # "" THEN key
                     ELSE Let(_get_default_value(node.values[i]), LAMBDA value :
                              IF value.raised # "" THEN value
                              ELSE IF ~Hashable(key.value) THEN Raised("TypeError")
                              ELSE Items(i + 1, Store(d, key.value, value.value))))
    IN  CASE node.type = "Constant" -> Returned(node.value)
          [] node.type \in {"List", "Tuple", "Set"} -> Elements(node.elts, <<>>)
          [] node.type = "Dict" -> Items(1, <<>>)
          [] OTHER -> Returned(PyStr(_get_name(node)))

_get_value_type(node) ==
    CASE node.type = "Constant" -> TypeName(node.value.py)
      [] node.type = "List" -> <<"l","i","s","t">>
      [] node.type = "Tuple" -> <<"t","u","p","l","e">>
      [] node.type = "Dict" -> <<"d","i","c","t">>
      [] node.type = "Set" -> <<"s","e","t">>
      [] node.type = "Name" -> node.id
      [] node.type = "Call" -> _get_name(node.func)
      [] OTHER -> <<"u","n","k","n","o","w","n">>

_get_args(args) ==
    LET \* result[index]["default"] = value for each default in turn, with a list's
        \* indexing: a negative index counts from the end, one outside the list raises
        RECURSIVE SetDefaults(_, _, _, _)
        SetDefaults(result, defaults_offset, defaults, i) ==
            IF i >= Len(defaults) THEN Returned(result)
            ELSE LET index == defaults_offset + i
                     at == IF index < 0 THEN index + Len(result) ELSE index
                 IN  Let(_get_default_value(At(defaults, i)), LAMBDA default :
                         IF default.raised # "" THEN default
                         ELSE IF at < 0 \/ at >= Len(result) THEN Raised("IndexError")
                         ELSE SetDefaults(
                                [result EXCEPT ![at + 1] =
                                    [default |-> default.value] @@ result[at + 1]],
                                defaults_offset, defaults, i + 1))
        Info(arg) == IF arg.annotation # NoNode
                     THEN [name |-> arg.arg, type |-> _get_name(arg.annotation)]
                     ELSE [name |-> arg.arg]
        WithDefaults(result) ==
            IF Len(args.defaults) > 0
            THEN SetDefaults(result, Len(args.args) - Len(args.defaults), args.defaults, 0)
            ELSE Returned(result)
    IN  WithDefaults(Map(Info, args.args))

_process_function(node) ==
    LET Info(args) ==
            IF args.raised # "" THEN args
            ELSE Returned([name |-> node.name,
                           args |-> args.value,
                           decorators |-> Map(_get_name, node.decorator_list),
                           is_async |-> node.type = "AsyncFunctionDef"])
    IN  Info(_get_args(node.args))

PythonCodeVisitor ==
    [imports |-> <<>>, classes |-> <<>>, functions |-> <<>>, variables |-> <<>>,
     dependencies |-> <<>>, current_class |-> None, raised |-> ""]

RECURSIVE visit(_, _)

RECURSIVE visit_each(_, _)
visit_each(nodes, self) ==
    IF Len(nodes) = 0 \/ self.raised # "" THEN self
    ELSE visit_each(Tail(nodes), visit(Head(nodes), self))

generic_visit(node, self) == visit_each(node.body, self)

visit_Import(node, self) ==
    LET Imported(name) == [name |-> name.name, alias |-> name.asname]
        Name(name) == name.name
    IN  generic_visit(node,
            [self EXCEPT !.imports = @ \o Map(Imported, node.names),
                         !.dependencies = set_from(@ \o Map(Name, node.names))])

visit_ImportFrom(node, self) ==
    LET From(name) == [module |-> node.module, name |-> name.name, alias |-> name.asname]
    IN  generic_visit(node,
            IF Truthy(node.module)
            THEN [self EXCEPT !.dependencies = set_add(@, node.module),
                              !.imports = @ \o Map(From, node.names)]
            ELSE self)

visit_ClassDef(node, self) ==
    LET \* the methods of a class body: its FunctionDef items, processed in order
        RECURSIVE ClassMethods(_, _)
        ClassMethods(items, methods) ==
            IF Len(items) = 0 THEN Returned(methods)
            ELSE IF Head(items).type = "FunctionDef"
                 THEN LET Method(method_info) ==
                              IF method_info.raised # "" THEN method_info
                              ELSE ClassMethods(Tail(items),
                                       Append(methods, [is_method |-> TRUE] @@ method_info.value))
                      IN  Method(_process_function(Head(items)))
            ELSE ClassMethods(Tail(items), methods)
        old_class == self.current_class
        class_info(methods) == [name |-> node.name,
                                methods |-> methods,
                                bases |-> Map(_get_name, node.bases),
                                decorators |-> Map(_get_name, node.decorator_list)]
        Class(methods) ==
            IF methods.raised # "" THEN [self EXCEPT !.current_class = node.name,
                                                     !.raised = methods.raised]
            ELSE generic_visit(node,
                     [self EXCEPT !.classes = Append(@, class_info(methods.value)),
                                  !.current_class = old_class])
    IN  Class(ClassMethods(node.body, <<>>))

visit_FunctionDef(node, self) ==
    LET Function(function_info) ==
            IF function_info.raised # "" THEN [self EXCEPT !.raised = function_info.raised]
            ELSE generic_visit(node, [self EXCEPT !.functions = Append(@, function_info.value)])
    IN  IF ~Truthy(self.current_class) THEN Function(_process_function(node))
        ELSE generic_visit(node, self)

visit_AsyncFunctionDef(node, self) ==
    LET Function(function_info) ==
            IF function_info.raised # "" THEN [self EXCEPT !.raised = function_info.raised]
            ELSE generic_visit(node,
                    [self EXCEPT !.functions =
                                    Append(@, [function_info.value EXCEPT !.is_async = TRUE])])
    IN  IF ~Truthy(self.current_class) THEN Function(_process_function(node))
        ELSE generic_visit(node, self)

visit_Assign(node, self) ==
    LET IsName(target) == target.type = "Name"
        Variable(target) == [name |-> target.id, value_type |-> _get_value_type(node.value)]
    IN  generic_visit(node,
            IF ~Truthy(self.current_class)
            THEN [self EXCEPT !.variables = @ \o Map(Variable, Filter(IsName, node.targets))]
            ELSE self)

visit(node, self) ==
    CASE node.type = "Import" -> visit_Import(node, self)
      [] node.type = "ImportFrom" -> visit_ImportFrom(node, self)
      [] node.type = "ClassDef" -> visit_ClassDef(node, self)
      [] node.type = "FunctionDef" -> visit_FunctionDef(node, self)
      [] node.type = "AsyncFunctionDef" -> visit_AsyncFunctionDef(node, self)
      [] node.type = "Assign" -> visit_Assign(node, self)
      [] OTHER -> generic_visit(node, self)

-----------------------------------------------------------------------------
(* ast.parse: the Python texts of the model, each with the tree ast.parse     *)
(* makes of it (its statements, SyntaxError when it raises).                   *)

\* "def f(:\n"
Py_Broken == <<"d","e","f"," ","f","(",":","\n">>

\* "class A(B):\n def f(self, x=1): pass\n"
Py_ClassAB == <<"c","l","a","s","s"," ","A","(","B",")",":","\n"," ","d","e","f"," ","f","(","s","e","l","f",","," ","x","=","1",")",":"," ","p","a","s","s","\n">>

\* "class A:\n def f(self): pass\n async def g(self): pass\n class In:\n  def h(self, k=2): pass\ndef top(): pass\n"
Py_Members == <<"c","l","a","s","s"," ","A",":","\n"," ","d","e","f"," ","f","(","s","e","l","f",")",":"," ","p","a","s","s","\n"," ","a","s","y","n","c"," ","d","e","f"," ","g","(","s","e","l","f",")",":"," ","p","a","s","s","\n"," ","c","l","a","s","s"," ","I","n",":","\n"," "," ","d","e","f"," ","h","(","s","e","l","f",","," ","k","=","2",")",":"," ","p","a","s","s","\n","d","e","f"," ","t","o","p","(",")",":"," ","p","a","s","s","\n">>

\* "def outer():\n def inner(): pass\nasync def co(): pass\nif x:\n def g(): pass\n"
Py_Nested == <<"d","e","f"," ","o","u","t","e","r","(",")",":","\n"," ","d","e","f"," ","i","n","n","e","r","(",")",":"," ","p","a","s","s","\n","a","s","y","n","c"," ","d","e","f"," ","c","o","(",")",":"," ","p","a","s","s","\n","i","f"," ","x",":","\n"," ","d","e","f"," ","g","(",")",":"," ","p","a","s","s","\n">>

\* "import os\nfrom .y import q\n"
Py_Small == <<"i","m","p","o","r","t"," ","o","s","\n","f","r","o","m"," ",".","y"," ","i","m","p","o","r","t"," ","q","\n">>

\* "def f(a=1, b=2, /): pass\n"
Py_PosOnly == <<"d","e","f"," ","f","(","a","=","1",","," ","b","=","2",","," ","/",")",":"," ","p","a","s","s","\n">>

\* the texts of the Python files of the model, each with what ast.parse makes of it
PyCorpus == <<
    \* ""
    <<<<>>,
      [type |-> "Module", body |-> <<>>]>>,
    \* "def f(:\n"
    <<Py_Broken,
      SyntaxError>>,
    \* "class A(B):\n def f(self, x=1): pass\n"
    <<Py_ClassAB,
      [type |-> "Module", body |-> <<
          [type |-> "ClassDef", name |-> <<"A">>, bases |-> <<[type |-> "Name", id |-> <<"B">>]>>, decorator_list |-> <<>>, body |-> <<
              [type |-> "FunctionDef", name |-> <<"f">>,
                   args |-> [posonlyargs |-> <<>>, args |-> <<[arg |-> <<"s","e","l","f">>, annotation |-> NoNode], [arg |-> <<"x">>, annotation |-> NoNode]>>, defaults |-> <<[type |-> "Constant", value |-> PyInt(1)]>>],
                   decorator_list |-> <<>>, body |-> <<
                  [type |-> "Pass", body |-> <<>>]>>]>>]>>]>>,
    \* "class A:\n def f(self): pass\n async def g(self): pass\n class In:\n  def h(self, k=2): pass\ndef top(): pass\n"
    <<Py_Members,
      [type |-> "Module", body |-> <<
          [type |-> "ClassDef", name |-> <<"A">>, bases |-> <<>>, decorator_list |-> <<>>, body |-> <<
              [type |-> "FunctionDef", name |-> <<"f">>,
                   args |-> [posonlyargs |-> <<>>, args |-> <<[arg |-> <<"s","e","l","f">>, annotation |-> NoNode]>>, defaults |-> <<>>],
                   decorator_list |-> <<>>, body |-> <<
                  [type |-> "Pass", body |-> <<>>]>>],
              [type |-> "AsyncFunctionDef", name |-> <<"g">>,
                   args |-> [posonlyargs |-> <<>>, args |-> <<[arg |-> <<"s","e","l","f">>, annotation |-> NoNode]>>, defaults |-> <<>>],
                   decorator_list |-> <<>>, body |-> <<
                  [type |-> "Pass", body |-> <<>>]>>],
              [type |-> "ClassDef", name |-> <<"I","n">>, bases |-> <<>>, decorator_list |-> <<>>, body |-> <<
                  [type |-> "FunctionDef", name |-> <<"h">>,
                       args |-> [posonlyargs |-> <<>>, args |-> <<[arg |-> <<"s","e","l","f">>, annotation |-> NoNode], [arg |-> <<"k">>, annotation |-> NoNode]>>, defaults |-> <<[type |-> "Constant", value |-> PyInt(2)]>>],
                       decorator_list |-> <<>>, body |-> <<
                      [type |-> "Pass", body |-> <<>>]>>]>>]>>],
          [type |-> "FunctionDef", name |-> <<"t","o","p">>,
               args |-> [posonlyargs |-> <<>>, args |-> <<>>, defaults |-> <<>>],
               decorator_list |-> <<>>, body |-> <<
              [type |-> "Pass", body |-> <<>>]>>]>>]>>,
    \* "def outer():\n def inner(): pass\nasync def co(): pass\nif x:\n def g(): pass\n"
    <<Py_Nested,
      [type |-> "Module", body |-> <<
          [type |-> "FunctionDef", name |-> <<"o","u","t","e","r">>,
               args |-> [posonlyargs |-> <<>>, args |-> <<>>, defaults |-> <<>>],
               decorator_list |-> <<>>, body |-> <<
              [type |-> "FunctionDef", name |-> <<"i","n","n","e","r">>,
                   args |-> [posonlyargs |-> <<>>, args |-> <<>>, defaults |-> <<>>],
                   decorator_list |-> <<>>, body |-> <<
                  [type |-> "Pass", body |-> <<>>]>>]>>],
          [type |-> "AsyncFunctionDef", name |-> <<"c","o">>,
               args |-> [posonlyargs |-> <<>>, args |-> <<>>, defaults |-> <<>>],
               decorator_list |-> <<>>, body |-> <<
              [type |-> "Pass", body |-> <<>>]>>],
          [type |-> "If", body |-> <<
              [type |-> "FunctionDef", name |-> <<"g">>,
                   args |-> [posonlyargs |-> <<>>, args |-> <<>>, defaults |-> <<>>],
                   decorator_list |-> <<>>, body |-> <<
                  [type |-> "Pass", body |-> <<>>]>>]>>]>>]>>,
    \* "import a.b.c as abc\nfrom x.y import z, w as v\nfrom . import q\nfrom .m import n\n"
    <<<<"i","m","p","o","r","t"," ","a",".","b",".","c"," ","a","s"," ","a","b","c","\n","f","r","o","m"," ","x",".","y"," ","i","m","p","o","r","t"," ","z",","," ","w"," ","a","s"," ","v","\n","f","r","o","m"," ","."," ","i","m","p","o","r","t"," ","q","\n","f","r","o","m"," ",".","m"," ","i","m","p","o","r","t"," ","n","\n">>,
      [type |-> "Module", body |-> <<
          [type |-> "Import", names |-> <<[name |-> <<"a",".","b",".","c">>, asname |-> <<"a","b","c">>]>>, body |-> <<>>],
          [type |-> "ImportFrom", module |-> <<"x",".","y">>, names |-> <<[name |-> <<"z">>, asname |-> None], [name |-> <<"w">>, asname |-> <<"v">>]>>, level |-> 0, body |-> <<>>],
          [type |-> "ImportFrom", module |-> None, names |-> <<[name |-> <<"q">>, asname |-> None]>>, level |-> 1, body |-> <<>>],
          [type |-> "ImportFrom", module |-> <<"m">>, names |-> <<[name |-> <<"n">>, asname |-> None]>>, level |-> 1, body |-> <<>>]>>]>>,
    \* "x = 1\ny = [1]\nz = foo()\nclass A:\n v = 2\n"
    <<<<"x"," ","="," ","1","\n","y"," ","="," ","[","1","]","\n","z"," ","="," ","f","o","o","(",")","\n","c","l","a","s","s"," ","A",":","\n"," ","v"," ","="," ","2","\n">>,
      [type |-> "Module", body |-> <<
          [type |-> "Assign", targets |-> <<[type |-> "Name", id |-> <<"x">>]>>, value |-> [type |-> "Constant", value |-> PyInt(1)], body |-> <<>>],
          [type |-> "Assign", targets |-> <<[type |-> "Name", id |-> <<"y">>]>>, value |-> [type |-> "List", elts |-> <<[type |-> "Constant", value |-> PyInt(1)]>>], body |-> <<>>],
          [type |-> "Assign", targets |-> <<[type |-> "Name", id |-> <<"z">>]>>, value |-> [type |-> "Call", func |-> [type |-> "Name", id |-> <<"f","o","o">>]], body |-> <<>>],
          [type |-> "ClassDef", name |-> <<"A">>, bases |-> <<>>, decorator_list |-> <<>>, body |-> <<
              [type |-> "Assign", targets |-> <<[type |-> "Name", id |-> <<"v">>]>>, value |-> [type |-> "Constant", value |-> PyInt(2)], body |-> <<>>]>>]>>]>>,
    \* "@dec\nclass A(m.B, C[D]): pass\n@d.e()\ndef f(x: int = 1, y=[1, 'q'], *a, k=3, **kw): pass\n"
    <<<<"@","d","e","c","\n","c","l","a","s","s"," ","A","(","m",".","B",","," ","C","[","D","]",")",":"," ","p","a","s","s","\n","@","d",".","e","(",")","\n","d","e","f"," ","f","(","x",":"," ","i","n","t"," ","="," ","1",","," ","y","=","[","1",","," ","'","q","'","]",","," ","*","a",","," ","k","=","3",","," ","*","*","k","w",")",":"," ","p","a","s","s","\n">>,
      [type |-> "Module", body |-> <<
          [type |-> "ClassDef", name |-> <<"A">>, bases |-> <<[type |-> "Attribute", value |-> [type |-> "Name", id |-> <<"m">>], attr |-> <<"B">>], [type |-> "Subscript", value |-> [type |-> "Name", id |-> <<"C">>], slice |-> [type |-> "Name", id |-> <<"D">>]]>>, decorator_list |-> <<[type |-> "Name", id |-> <<"d","e","c">>]>>, body |-> <<
              [type |-> "Pass", body |-> <<>>]>>],
          [type |-> "FunctionDef", name |-> <<"f">>,
               args |-> [posonlyargs |-> <<>>, args |-> <<[arg |-> <<"x">>, annotation |-> [type |-> "Name", id |-> <<"i","n","t">>]], [arg |-> <<"y">>, annotation |-> NoNode]>>, defaults |-> <<[type |-> "Constant", value |-> PyInt(1)], [type |-> "List", elts |-> <<[type |-> "Constant", value |-> PyInt(1)], [type |-> "Constant", value |-> PyStr(<<"q">>)]>>]>>],
               decorator_list |-> <<[type |-> "Call", func |-> [type |-> "Attribute", value |-> [type |-> "Name", id |-> <<"d">>], attr |-> <<"e">>]]>>, body |-> <<
              [type |-> "Pass", body |-> <<>>]>>]>>]>>,
    \* "import os\nfrom .y import q\n"
    <<Py_Small,
      [type |-> "Module", body |-> <<
          [type |-> "Import", names |-> <<[name |-> <<"o","s">>, asname |-> None]>>, body |-> <<>>],
          [type |-> "ImportFrom", module |-> <<"y">>, names |-> <<[name |-> <<"q">>, asname |-> None]>>, level |-> 1, body |-> <<>>]>>]>>,
    \* "def f(a=1, b=2, /): pass\n"
    <<Py_PosOnly,
      [type |-> "Module", body |-> <<
          [type |-> "FunctionDef", name |-> <<"f">>,
               args |-> [posonlyargs |-> <<[arg |-> <<"a">>, annotation |-> NoNode], [arg |-> <<"b">>, annotation |-> NoNode]>>, args |-> <<>>, defaults |-> <<[type |-> "Constant", value |-> PyInt(1)], [type |-> "Constant", value |-> PyInt(2)]>>],
               decorator_list |-> <<>>, body |-> <<
              [type |-> "Pass", body |-> <<>>]>>]>>]>>,
    \* "class A:\n def f(a=1, /, b=2): pass\n"
    <<<<"c","l","a","s","s"," ","A",":","\n"," ","d","e","f"," ","f","(","a","=","1",","," ","/",","," ","b","=","2",")",":"," ","p","a","s","s","\n">>,
      [type |-> "Module", body |-> <<
          [type |-> "ClassDef", name |-> <<"A">>, bases |-> <<>>, decorator_list |-> <<>>, body |-> <<
              [type |-> "FunctionDef", name |-> <<"f">>,
                   args |-> [posonlyargs |-> <<[arg |-> <<"a">>, annotation |-> NoNode]>>, args |-> <<[arg |-> <<"b">>, annotation |-> NoNode]>>, defaults |-> <<[type |-> "Constant", value |-> PyInt(1)], [type |-> "Constant", value |-> PyInt(2)]>>],
                   decorator_list |-> <<>>, body |-> <<
                  [type |-> "Pass", body |-> <<>>]>>]>>]>>]>>,
    \* "def f(a={1: 2, True: 3, \"k\": 4, k: 5, \"k\": 6}, b=[{}]): pass\n"
    <<<<"d","e","f"," ","f","(","a","=","{","1",":"," ","2",","," ","T","r","u","e",":"," ","3",","," ","\"","k","\"",":"," ","4",","," ","k",":"," ","5",","," ","\"","k","\"",":"," ","6","}",","," ","b","=","[","{","}","]",")",":"," ","p","a","s","s","\n">>,
      [type |-> "Module", body |-> <<
          [type |-> "FunctionDef", name |-> <<"f">>,
               args |-> [posonlyargs |-> <<>>, args |-> <<[arg |-> <<"a">>, annotation |-> NoNode], [arg |-> <<"b">>, annotation |-> NoNode]>>, defaults |-> <<[type |-> "Dict", keys |-> <<[type |-> "Constant", value |-> PyInt(1)], [type |-> "Constant", value |-> PyBool(TRUE)], [type |-> "Constant", value |-> PyStr(<<"k">>)], [type |-> "Name", id |-> <<"k">>], [type |-> "Constant", value |-> PyStr(<<"k">>)]>>, values |-> <<[type |-> "Constant", value |-> PyInt(2)], [type |-> "Constant", value |-> PyInt(3)], [type |-> "Constant", value |-> PyInt(4)], [type |-> "Constant", value |-> PyInt(5)], [type |-> "Constant", value |-> PyInt(6)]>>], [type |-> "List", elts |-> <<[type |-> "Dict", keys |-> <<>>, values |-> <<>>]>>]>>],
               decorator_list |-> <<>>, body |-> <<
              [type |-> "Pass", body |-> <<>>]>>]>>]>>,
    \* "def f(a={(1, 2): 3}): pass\nimport os\n"
    <<<<"d","e","f"," ","f","(","a","=","{","(","1",","," ","2",")",":"," ","3","}",")",":"," ","p","a","s","s","\n","i","m","p","o","r","t"," ","o","s","\n">>,
      [type |-> "Module", body |-> <<
          [type |-> "FunctionDef", name |-> <<"f">>,
               args |-> [posonlyargs |-> <<>>, args |-> <<[arg |-> <<"a">>, annotation |-> NoNode]>>, defaults |-> <<[type |-> "Dict", keys |-> <<[type |-> "Tuple", elts |-> <<[type |-> "Constant", value |-> PyInt(1)], [type |-> "Constant", value |-> PyInt(2)]>>]>>, values |-> <<[type |-> "Constant", value |-> PyInt(3)]>>]>>],
               decorator_list |-> <<>>, body |-> <<
              [type |-> "Pass", body |-> <<>>]>>],
          [type |-> "Import", names |-> <<[name |-> <<"o","s">>, asname |-> None]>>, body |-> <<>>]>>]>>,
    \* "def f(a={**b, None: 1}, b={2: {[1]: 2}}): pass\n"
    <<<<"d","e","f"," ","f","(","a","=","{","*","*","b",","," ","N","o","n","e",":"," ","1","}",","," ","b","=","{","2",":"," ","{","[","1","]",":"," ","2","}","}",")",":"," ","p","a","s","s","\n">>,
      [type |-> "Module", body |-> <<
          [type |-> "FunctionDef", name |-> <<"f">>,
               args |-> [posonlyargs |-> <<>>, args |-> <<[arg |-> <<"a">>, annotation |-> NoNode], [arg |-> <<"b">>, annotation |-> NoNode]>>, defaults |-> <<[type |-> "Dict", keys |-> <<NoNode, [type |-> "Constant", value |-> PyNone]>>, values |-> <<[type |-> "Name", id |-> <<"b">>], [type |-> "Constant", value |-> PyInt(1)]>>], [type |-> "Dict", keys |-> <<[type |-> "Constant", value |-> PyInt(2)]>>, values |-> <<[type |-> "Dict", keys |-> <<[type |-> "List", elts |-> <<[type |-> "Constant", value |-> PyInt(1)]>>]>>, values |-> <<[type |-> "Constant", value |-> PyInt(2)]>>]>>]>>],
               decorator_list |-> <<>>, body |-> <<
              [type |-> "Pass", body |-> <<>>]>>]>>]>>,
    \* "class A(B):\n def f(self, x=1): return x\n"
    <<<<"c","l","a","s","s"," ","A","(","B",")",":","\n"," ","d","e","f"," ","f","(","s","e","l","f",","," ","x","=","1",")",":"," ","r","e","t","u","r","n"," ","x","\n">>,
      [type |-> "Module", body |-> <<
          [type |-> "ClassDef", name |-> <<"A">>, bases |-> <<[type |-> "Name", id |-> <<"B">>]>>, decorator_list |-> <<>>, body |-> <<
              [type |-> "FunctionDef", name |-> <<"f">>,
                   args |-> [posonlyargs |-> <<>>, args |-> <<[arg |-> <<"s","e","l","f">>, annotation |-> NoNode], [arg |-> <<"x">>, annotation |-> NoNode]>>, defaults |-> <<[type |-> "Constant", value |-> PyInt(1)]>>],
                   decorator_list |-> <<>>, body |-> <<
                  [type |-> "Return", body |-> <<>>]>>]>>]>>]>>,
    \* "def f(): pass\n"
    <<<<"d","e","f"," ","f","(",")",":"," ","p","a","s","s","\n">>,
      [type |-> "Module", body |-> <<
          [type |-> "FunctionDef", name |-> <<"f">>,
               args |-> [posonlyargs |-> <<>>, args |-> <<>>, defaults |-> <<>>],
               decorator_list |-> <<>>, body |-> <<
              [type |-> "Pass", body |-> <<>>]>>]>>]>>,
    \* "def f(a): pass\n"
    <<<<"d","e","f"," ","f","(","a",")",":"," ","p","a","s","s","\n">>,
      [type |-> "Module", body |-> <<
          [type |-> "FunctionDef", name |-> <<"f">>,
               args |-> [posonlyargs |-> <<>>, args |-> <<[arg |-> <<"a">>, annotation |-> NoNode]>>, defaults |-> <<>>],
               decorator_list |-> <<>>, body |-> <<
              [type |-> "Pass", body |-> <<>>]>>]>>]>>,
    \* "def f(a=1): pass\n"
    <<<<"d","e","f"," ","f","(","a","=","1",")",":"," ","p","a","s","s","\n">>,
      [type |-> "Module", body |-> <<
          [type |-> "FunctionDef", name |-> <<"f">>,
               args |-> [posonlyargs |-> <<>>, args |-> <<[arg |-> <<"a">>, annotation |-> NoNode]>>, defaults |-> <<[type |-> "Constant", value |-> PyInt(1)]>>],
               decorator_list |-> <<>>, body |-> <<
              [type |-> "Pass", body |-> <<>>]>>]>>]>>,
    \* "def f(a, /): pass\n"
    <<<<"d","e","f"," ","f","(","a",","," ","/",")",":"," ","p","a","s","s","\n">>,
      [type |-> "Module", body |-> <<
          [type |-> "FunctionDef", name |-> <<"f">>,
               args |-> [posonlyargs |-> <<[arg |-> <<"a">>, annotation |-> NoNode]>>, args |-> <<>>, defaults |-> <<>>],
               decorator_list |-> <<>>, body |-> <<
              [type |-> "Pass", body |-> <<>>]>>]>>]>>,
    \* "def f(a=1, /): pass\n"
    <<<<"d","e","f"," ","f","(","a","=","1",","," ","/",")",":"," ","p","a","s","s","\n">>,
      [type |-> "Module", body |-> <<
          [type |-> "FunctionDef", name |-> <<"f">>,
               args |-> [posonlyargs |-> <<[arg |-> <<"a">>, annotation |-> NoNode]>>, args |-> <<>>, defaults |-> <<[type |-> "Constant", value |-> PyInt(1)]>>],
               decorator_list |-> <<>>, body |-> <<
              [type |-> "Pass", body |-> <<>>]>>]>>]>>,
    \* "def f(a, b): pass\n"
    <<<<"d","e","f"," ","f","(","a",","," ","b",")",":"," ","p","a","s","s","\n">>,
      [type |-> "Module", body |-> <<
          [type |-> "FunctionDef", name |-> <<"f">>,
               args |-> [posonlyargs |-> <<>>, args |-> <<[arg |-> <<"a">>, annotation |-> NoNode], [arg |-> <<"b">>, annotation |-> NoNode]>>, defaults |-> <<>>],
               decorator_list |-> <<>>, body |-> <<
              [type |-> "Pass", body |-> <<>>]>>]>>]>>,
    \* "def f(a, b=2): pass\n"
    <<<<"d","e","f"," ","f","(","a",","," ","b","=","2",")",":"," ","p","a","s","s","\n">>,
      [type |-> "Module", body |-> <<
          [type |-> "FunctionDef", name |-> <<"f">>,
               args |-> [posonlyargs |-> <<>>, args |-> <<[arg |-> <<"a">>, annotation |-> NoNode], [arg |-> <<"b">>, annotation |-> NoNode]>>, defaults |-> <<[type |-> "Constant", value |-> PyInt(2)]>>],
               decorator_list |-> <<>>, body |-> <<
              [type |-> "Pass", body |-> <<>>]>>]>>]>>,
    \* "def f(a=1, b=2): pass\n"
    <<<<"d","e","f"," ","f","(","a","=","1",","," ","b","=","2",")",":"," ","p","a","s","s","\n">>,
      [type |-> "Module", body |-> <<
          [type |-> "FunctionDef", name |-> <<"f">>,
               args |-> [posonlyargs |-> <<>>, args |-> <<[arg |-> <<"a">>, annotation |-> NoNode], [arg |-> <<"b">>, annotation |-> NoNode]>>, defaults |-> <<[type |-> "Constant", value |-> PyInt(1)], [type |-> "Constant", value |-> PyInt(2)]>>],
               decorator_list |-> <<>>, body |-> <<
              [type |-> "Pass", body |-> <<>>]>>]>>]>>,
    \* "def f(a, /, b): pass\n"
    <<<<"d","e","f"," ","f","(","a",","," ","/",","," ","b",")",":"," ","p","a","s","s","\n">>,
      [type |-> "Module", body |-> <<
          [type |-> "FunctionDef", name |-> <<"f">>,
               args |-> [posonlyargs |-> <<[arg |-> <<"a">>, annotation |-> NoNode]>>, args |-> <<[arg |-> <<"b">>, annotation |-> NoNode]>>, defaults |-> <<>>],
               decorator_list |-> <<>>, body |-> <<
              [type |-> "Pass", body |-> <<>>]>>]>>]>>,
    \* "def f(a, /, b=2): pass\n"
    <<<<"d","e","f"," ","f","(","a",","," ","/",","," ","b","=","2",")",":"," ","p","a","s","s","\n">>,
      [type |-> "Module", body |-> <<
          [type |-> "FunctionDef", name |-> <<"f">>,
               args |-> [posonlyargs |-> <<[arg |-> <<"a">>, annotation |-> NoNode]>>, args |-> <<[arg |-> <<"b">>, annotation |-> NoNode]>>, defaults |-> <<[type |-> "Constant", value |-> PyInt(2)]>>],
               decorator_list |-> <<>>, body |-> <<
              [type |-> "Pass", body |-> <<>>]>>]>>]>>,
    \* "def f(a=1, /, b=2): pass\n"
    <<<<"d","e","f"," ","f","(","a","=","1",","," ","/",","," ","b","=","2",")",":"," ","p","a","s","s","\n">>,
      [type |-> "Module", body |-> <<
          [type |-> "FunctionDef", name |-> <<"f">>,
               args |-> [posonlyargs |-> <<[arg |-> <<"a">>, annotation |-> NoNode]>>, args |-> <<[arg |-> <<"b">>, annotation |-> NoNode]>>, defaults |-> <<[type |-> "Constant", value |-> PyInt(1)], [type |-> "Constant", value |-> PyInt(2)]>>],
               decorator_list |-> <<>>, body |-> <<
              [type |-> "Pass", body |-> <<>>]>>]>>]>>,
    \* "def f(a, b, /): pass\n"
    <<<<"d","e","f"," ","f","(","a",","," ","b",","," ","/",")",":"," ","p","a","s","s","\n">>,
      [type |-> "Module", body |-> <<
          [type |-> "FunctionDef", name |-> <<"f">>,
               args |-> [posonlyargs |-> <<[arg |-> <<"a">>, annotation |-> NoNode], [arg |-> <<"b">>, annotation |-> NoNode]>>, args |-> <<>>, defaults |-> <<>>],
               decorator_list |-> <<>>, body |-> <<
              [type |-> "Pass", body |-> <<>>]>>]>>]>>,
    \* "def f(a, b=2, /): pass\n"
    <<<<"d","e","f"," ","f","(","a",","," ","b","=","2",","," ","/",")",":"," ","p","a","s","s","\n">>,
      [type |-> "Module", body |-> <<
          [type |-> "FunctionDef", name |-> <<"f">>,
               args |-> [posonlyargs |-> <<[arg |-> <<"a">>, annotation |-> NoNode], [arg |-> <<"b">>, annotation |-> NoNode]>>, args |-> <<>>, defaults |-> <<[type |-> "Constant", value |-> PyInt(2)]>>],
               decorator_list |-> <<>>, body |-> <<
              [type |-> "Pass", body |-> <<>>]>>]>>]>>,
    \* "def f(a, b, c): pass\n"
    <<<<"d","e","f"," ","f","(","a",","," ","b",","," ","c",")",":"," ","p","a","s","s","\n">>,
      [type |-> "Module", body |-> <<
          [type |-> "FunctionDef", name |-> <<"f">>,
               args |-> [posonlyargs |-> <<>>, args |-> <<[arg |-> <<"a">>, annotation |-> NoNode], [arg |-> <<"b">>, annotation |-> NoNode], [arg |-> <<"c">>, annotation |-> NoNode]>>, defaults |-> <<>>],
               decorator_list |-> <<>>, body |-> <<
              [type |-> "Pass", body |-> <<>>]>>]>>]>>,
    \* "def f(a, b, c=3): pass\n"
    <<<<"d","e","f"," ","f","(","a",","," ","b",","," ","c","=","3",")",":"," ","p","a","s","s","\n">>,
      [type |-> "Module", body |-> <<
          [type |-> "FunctionDef", name |-> <<"f">>,
               args |-> [posonlyargs |-> <<>>, args |-> <<[arg |-> <<"a">>, annotation |-> NoNode], [arg |-> <<"b">>, annotation |-> NoNode], [arg |-> <<"c">>, annotation |-> NoNode]>>, defaults |-> <<[type |-> "Constant", value |-> PyInt(3)]>>],
               decorator_list |-> <<>>, body |-> <<
              [type |-> "Pass", body |-> <<>>]>>]>>]>>,
    \* "def f(a, b=2, c=3): pass\n"
    <<<<"d","e","f"," ","f","(","a",","," ","b","=","2",","," ","c","=","3",")",":"," ","p","a","s","s","\n">>,
      [type |-> "Module", body |-> <<
          [type |-> "FunctionDef", name |-> <<"f">>,
               args |-> [posonlyargs |-> <<>>, args |-> <<[arg |-> <<"a">>, annotation |-> NoNode], [arg |-> <<"b">>, annotation |-> NoNode], [arg |-> <<"c">>, annotation |-> NoNode]>>, defaults |-> <<[type |-> "Constant", value |-> PyInt(2)], [type |-> "Constant", value |-> PyInt(3)]>>],
               decorator_list |-> <<>>, body |-> <<
              [type |-> "Pass", body |-> <<>>]>>]>>]>>,
    \* "def f(a=1, b=2, c=3): pass\n"
    <<<<"d","e","f"," ","f","(","a","=","1",","," ","b","=","2",","," ","c","=","3",")",":"," ","p","a","s","s","\n">>,
      [type |-> "Module", body |-> <<
          [type |-> "FunctionDef", name |-> <<"f">>,
               args |-> [posonlyargs |-> <<>>, args |-> <<[arg |-> <<"a">>, annotation |-> NoNode], [arg |-> <<"b">>, annotation |-> NoNode], [arg |-> <<"c">>, annotation |-> NoNode]>>, defaults |-> <<[type |-> "Constant", value |-> PyInt(1)], [type |-> "Constant", value |-> PyInt(2)], [type |-> "Constant", value |-> PyInt(3)]>>],
               decorator_list |-> <<>>, body |-> <<
              [type |-> "Pass", body |-> <<>>]>>]>>]>>,
    \* "def f(a, /, b, c): pass\n"
    <<<<"d","e","f"," ","f","(","a",","," ","/",","," ","b",","," ","c",")",":"," ","p","a","s","s","\n">>,
      [type |-> "Module", body |-> <<
          [type |-> "FunctionDef", name |-> <<"f">>,
               args |-> [posonlyargs |-> <<[arg |-> <<"a">>, annotation |-> NoNode]>>, args |-> <<[arg |-> <<"b">>, annotation |-> NoNode], [arg |-> <<"c">>, annotation |-> NoNode]>>, defaults |-> <<>>],
               decorator_list |-> <<>>, body |-> <<
              [type |-> "Pass", body |-> <<>>]>>]>>]>>,
    \* "def f(a, /, b, c=3): pass\n"
    <<<<"d","e","f"," ","f","(","a",","," ","/",","," ","b",","," ","c","=","3",")",":"," ","p","a","s","s","\n">>,
      [type |-> "Module", body |-> <<
          [type |-> "FunctionDef", name |-> <<"f">>,
               args |-> [posonlyargs |-> <<[arg |-> <<"a">>, annotation |-> NoNode]>>, args |-> <<[arg |-> <<"b">>, annotation |-> NoNode], [arg |-> <<"c">>, annotation |-> NoNode]>>, defaults |-> <<[type |-> "Constant", value |-> PyInt(3)]>>],
               decorator_list |-> <<>>, body |-> <<
              [type |-> "Pass", body |-> <<>>]>>]>>]>>,
    \* "def f(a, /, b=2, c=3): pass\n"
    <<<<"d","e","f"," ","f","(","a",","," ","/",","," ","b","=","2",","," ","c","=","3",")",":"," ","p","a","s","s","\n">>,
      [type |-> "Module", body |-> <<
          [type |-> "FunctionDef", name |-> <<"f">>,
               args |-> [posonlyargs |-> <<[arg |-> <<"a">>, annotation |-> NoNode]>>, args |-> <<[arg |-> <<"b">>, annotation |-> NoNode], [arg |-> <<"c">>, annotation |-> NoNode]>>, defaults |-> <<[type |-> "Constant", value |-> PyInt(2)], [type |-> "Constant", value |-> PyInt(3)]>>],
               decorator_list |-> <<>>, body |-> <<
              [type |-> "Pass", body |-> <<>>]>>]>>]>>,
    \* "def f(a=1, /, b=2, c=3): pass\n"
    <<<<"d","e","f"," ","f","(","a","=","1",","," ","/",","," ","b","=","2",","," ","c","=","3",")",":"," ","p","a","s","s","\n">>,
      [type |-> "Module", body |-> <<
          [type |-> "FunctionDef", name |-> <<"f">>,
               args |-> [posonlyargs |-> <<[arg |-> <<"a">>, annotation |-> NoNode]>>, args |-> <<[arg |-> <<"b">>, annotation |-> NoNode], [arg |-> <<"c">>, annotation |-> NoNode]>>, defaults |-> <<[type |-> "Constant", value |-> PyInt(1)], [type |-> "Constant", value |-> PyInt(2)], [type |-> "Constant", value |-> PyInt(3)]>>],
               decorator_list |-> <<>>, body |-> <<
              [type |-> "Pass", body |-> <<>>]>>]>>]>>,
    \* "def f(a, b, /, c): pass\n"
    <<<<"d","e","f"," ","f","(","a",","," ","b",","," ","/",","," ","c",")",":"," ","p","a","s","s","\n">>,
      [type |-> "Module", body |-> <<
          [type |-> "FunctionDef", name |-> <<"f">>,
               args |-> [posonlyargs |-> <<[arg |-> <<"a">>, annotation |-> NoNode], [arg |-> <<"b">>, annotation |-> NoNode]>>, args |-> <<[arg |-> <<"c">>, annotation |-> NoNode]>>, defaults |-> <<>>],
               decorator_list |-> <<>>, body |-> <<
              [type |-> "Pass", body |-> <<>>]>>]>>]>>,
    \* "def f(a, b, /, c=3): pass\n"
    <<<<"d","e","f"," ","f","(","a",","," ","b",","," ","/",","," ","c","=","3",")",":"," ","p","a","s","s","\n">>,
      [type |-> "Module", body |-> <<
          [type |-> "FunctionDef", name |-> <<"f">>,
               args |-> [posonlyargs |-> <<[arg |-> <<"a">>, annotation |-> NoNode], [arg |-> <<"b">>, annotation |-> NoNode]>>, args |-> <<[arg |-> <<"c">>, annotation |-> NoNode]>>, defaults |-> <<[type |-> "Constant", value |-> PyInt(3)]>>],
               decorator_list |-> <<>>, body |-> <<
              [type |-> "Pass", body |-> <<>>]>>]>>]>>,
    \* "def f(a, b=2, /, c=3): pass\n"
    <<<<"d","e","f"," ","f","(","a",","," ","b","=","2",","," ","/",","," ","c","=","3",")",":"," ","p","a","s","s","\n">>,
      [type |-> "Module", body |-> <<
          [type |-> "FunctionDef", name |-> <<"f">>,
               args |-> [posonlyargs |-> <<[arg |-> <<"a">>, annotation |-> NoNode], [arg |-> <<"b">>, annotation |-> NoNode]>>, args |-> <<[arg |-> <<"c">>, annotation |-> NoNode]>>, defaults |-> <<[type |-> "Constant", value |-> PyInt(2)], [type |-> "Constant", value |-> PyInt(3)]>>],
               decorator_list |-> <<>>, body |-> <<
              [type |-> "Pass", body |-> <<>>]>>]>>]>>,
    \* "def f(a=1, b=2, /, c=3): pass\n"
    <<<<"d","e","f"," ","f","(","a","=","1",","," ","b","=","2",","," ","/",","," ","c","=","3",")",":"," ","p","a","s","s","\n">>,
      [type |-> "Module", body |-> <<
          [type |-> "FunctionDef", name |-> <<"f">>,
               args |-> [posonlyargs |-> <<[arg |-> <<"a">>, annotation |-> NoNode], [arg |-> <<"b">>, annotation |-> NoNode]>>, args |-> <<[arg |-> <<"c">>, annotation |-> NoNode]>>, defaults |-> <<[type |-> "Constant", value |-> PyInt(1)], [type |-> "Constant", value |-> PyInt(2)], [type |-> "Constant", value |-> PyInt(3)]>>],
               decorator_list |-> <<>>, body |-> <<
              [type |-> "Pass", body |-> <<>>]>>]>>]>>,
    \* "def f(a, b, c, /): pass\n"
    <<<<"d","e","f"," ","f","(","a",","," ","b",","," ","c",","," ","/",")",":"," ","p","a","s","s","\n">>,
      [type |-> "Module", body |-> <<
          [type |-> "FunctionDef", name |-> <<"f">>,
               args |-> [posonlyargs |-> <<[arg |-> <<"a">>, annotation |-> NoNode], [arg |-> <<"b">>, annotation |-> NoNode], [arg |-> <<"c">>, annotation |-> NoNode]>>, args |-> <<>>, defaults |-> <<>>],
               decorator_list |-> <<>>, body |-> <<
              [type |-> "Pass", body |-> <<>>]>>]>>]>>,
    \* "def f(a, b, c=3, /): pass\n"
    <<<<"d","e","f"," ","f","(","a",","," ","b",","," ","c","=","3",","," ","/",")",":"," ","p","a","s","s","\n">>,
      [type |-> "Module", body |-> <<
          [type |-> "FunctionDef", name |-> <<"f">>,
               args |-> [posonlyargs |-> <<[arg |-> <<"a">>, annotation |-> NoNode], [arg |-> <<"b">>, annotation |-> NoNode], [arg |-> <<"c">>, annotation |-> NoNode]>>, args |-> <<>>, defaults |-> <<[type |-> "Constant", value |-> PyInt(3)]>>],
               decorator_list |-> <<>>, body |-> <<
              [type |-> "Pass", body |-> <<>>]>>]>>]>>,
    \* "def f(a, b=2, c=3, /): pass\n"
    <<<<"d","e","f"," ","f","(","a",","," ","b","=","2",","," ","c","=","3",","," ","/",")",":"," ","p","a","s","s","\n">>,
      [type |-> "Module", body |-> <<
          [type |-> "FunctionDef", name |-> <<"f">>,
               args |-> [posonlyargs |-> <<[arg |-> <<"a">>, annotation |-> NoNode], [arg |-> <<"b">>, annotation |-> NoNode], [arg |-> <<"c">>, annotation |-> NoNode]>>, args |-> <<>>, defaults |-> <<[type |-> "Constant", value |-> PyInt(2)], [type |-> "Constant", value |-> PyInt(3)]>>],
               decorator_list |-> <<>>, body |-> <<
              [type |-> "Pass", body |-> <<>>]>>]>>]>>,
    \* "def f(a=1, b=2, c=3, /): pass\n"
    <<<<"d","e","f"," ","f","(","a","=","1",","," ","b","=","2",","," ","c","=","3",","," ","/",")",":"," ","p","a","s","s","\n">>,
      [type |-> "Module", body |-> <<
          [type |-> "FunctionDef", name |-> <<"f">>,
               args |-> [posonlyargs |-> <<[arg |-> <<"a">>, annotation |-> NoNode], [arg |-> <<"b">>, annotation |-> NoNode], [arg |-> <<"c">>, annotation |-> NoNode]>>, args |-> <<>>, defaults |-> <<[type |-> "Constant", value |-> PyInt(1)], [type |-> "Constant", value |-> PyInt(2)], [type |-> "Constant", value |-> PyInt(3)]>>],
               decorator_list |-> <<>>, body |-> <<
              [type |-> "Pass", body |-> <<>>]>>]>>]>>>>

ast_parse(text) ==
    LET TreeOf(corpus) == corpus[CHOOSE i \in 1..Len(corpus) : corpus[i][1] = text][2]
    IN  TreeOf(PyCorpus)

-----------------------------------------------------------------------------
-----------------------------------------------------------------------------
(* CodeAnalyzer.parse and get_dependency_graph *)

\* read_file had open's failure been swallowed: an unreadable file reads as empty
read_file_swallowing(files, path) ==
    IF path \in DOMAIN files /\ files[path] # Unreadable
    THEN Returned(files[path]) ELSE Returned(<<>>)

\* open(path).read(): the text, or the exception open raises
read_file(files, path) ==
    IF path \in DOMAIN files /\ files[path] # Unreadable
    THEN Returned(files[path]) ELSE Raised("OSError")

_extract_python_structure(self, seed) ==
    Let(visit(self._parsed_ast, PythonCodeVisitor), LAMBDA visitor :
        IF visitor.raised # "" THEN Raised(visitor.raised)
        ELSE Returned([language |-> <<"p","y","t","h","o","n">>,
                       imports |-> visitor.imports,
                       classes |-> visitor.classes,
                       functions |-> visitor.functions,
                       variables |-> visitor.variables,
                       dependencies |-> list_of_set(visitor.dependencies, seed)]))

\* _parse_python had the visitor been kept on the instance between calls: a second
\* parse() walks the new tree with the visitor that walked the kept one
_parse_python_keeping_visitor(self, seed) ==
    Let(ast_parse(self.content), LAMBDA tree :
        IF tree = SyntaxError
        THEN [self |-> self, result |-> [error |-> "python syntax error"]]
        ELSE Let(visit(tree, IF self._parsed_ast = NoNode THEN PythonCodeVisitor
                             ELSE visit(self._parsed_ast, PythonCodeVisitor)),
                 LAMBDA visitor :
                     [self |-> [self EXCEPT !._parsed_ast = tree],
                      result |-> IF visitor.raised # ""
                                 THEN [error |-> "python analysis error"]
                                 ELSE [language |-> <<"p","y","t","h","o","n">>,
                                       imports |-> visitor.imports,
                                       classes |-> visitor.classes,
                                       functions |-> visitor.functions,
                                       variables |-> visitor.variables,
                                       dependencies |->
                                           list_of_set(visitor.dependencies, seed)]]))

\* _parse_python: [self, result], self with the tree it kept
_parse_python(self, seed) ==
    Let(ast_parse(self.content), LAMBDA tree :
        IF tree = SyntaxError
        THEN [self |-> self, result |-> [error |-> "python syntax error"]]
        ELSE Let([self EXCEPT !._parsed_ast = tree], LAMBDA parsed_self :
             Let(_extract_python_structure(parsed_self, seed), LAMBDA structure :
                 [self |-> parsed_self,
                  result |-> IF structure.raised # ""
                             THEN [error |-> "python analysis error"]
                             ELSE structure.value])))

EndsWithAny(s, suffixes) == \E suffix \in suffixes : endswith(s, suffix)

\* parse: [self, result], self with the content it read
parse(self, files, seed) ==
    Let(IF Truthy(self.content) THEN Returned(self.content)
        ELSE read_file(files, self.file_path), LAMBDA text :
    Let(self.file_path, LAMBDA path :
        IF text.raised # "" THEN [self |-> self, result |-> [error |-> "cannot read file"]]
        ELSE Let([self EXCEPT !.content = text.value], LAMBDA read_self :
             IF endswith(path, <<".","p","y">>) THEN _parse_python(read_self, seed)
             ELSE [self |-> read_self,
                   result |->
                     IF EndsWithAny(path, {<<".","j","s">>, <<".","j","s","x">>, <<".","t","s">>, <<".","t","s","x">>})
                     THEN _parse_javascript(text.value, seed)
                     ELSE IF endswith(path, <<".","j","a","v","a">>) THEN _parse_java(text.value, seed)
                     ELSE IF EndsWithAny(path, {<<".","c">>, <<".","c","p","p">>, <<".","h">>, <<".","h","p","p">>})
                     THEN _parse_cpp(text.value, seed)
                     ELSE IF endswith(path, <<".","s","o","l">>) THEN _parse_solidity(text.value, seed)
                     ELSE IF endswith(path, <<".","g","o">>) THEN _parse_golang(text.value, seed)
                     ELSE IF endswith(path, <<".","r","s">>) THEN _parse_rust(text.value, seed)
                     ELSE _parse_generic(text.value)])))

IsError(result) == "error" \in DOMAIN result

\* the dict had it kept an item for every assignment, repeated keys too
dict_from_keeping_repeats(pairs) == pairs

RECURSIVE dict_from(_)
dict_from(pairs) ==
    IF Len(pairs) = 0 THEN <<>>
    ELSE dict_set(dict_from(SubSeq(pairs, 1, Len(pairs) - 1)),
                  pairs[Len(pairs)][1], pairs[Len(pairs)][2])

\* the classifier had it called internal every Java import with a '.' in its path
Classify_java_dotted_internal(result) ==
    LET language == result.language
        Python(imp) == <<imp.name, startswith(imp.name, <<".">>)>>
        JavaScript(imp) == <<imp.source, startswith(imp.source, <<".">>)>>
        Java(imp) == IF Contains(imp, <<".">>)
                     THEN <<split(imp, <<".">>)[1], TRUE>>
                     ELSE <<imp, FALSE>>
        Cpp(inc) == <<inc, ~(startswith(inc, <<"<">>) /\ endswith(inc, <<">">>))>>
        Go(imp) == <<imp, Contains(imp, <<"/">>) /\ ~startswith(imp, <<"g","i","t","h","u","b",".","c","o","m","/">>)>>
        Rust(imp) == LET Crate(parts) ==
                             <<parts[1], parts[1] \notin {<<"s","t","d">>, <<"c","o","r","e">>, <<"a","l","l","o","c">>}>>
                     IN  Crate(split(imp, <<":",":">>))
        Solidity(imp) == <<imp, startswith(imp, <<".","/">>) \/ startswith(imp, <<".",".","/">>)>>
    IN  dict_from(
          CASE language = <<"p","y","t","h","o","n">> -> Map(Python, get_list(result, "imports"))
            [] language \in {<<"j","a","v","a","s","c","r","i","p","t">>, <<"j","s","x","/","t","s","x">>} ->
                   Map(JavaScript, get_list(result, "imports"))
            [] language = <<"j","a","v","a">> -> Map(Java, get_list(result, "imports"))
            [] language = <<"c","/","c","+","+">> -> Map(Cpp, get_list(result, "includes"))
            [] language = <<"g","o">> -> Map(Go, get_list(result, "imports"))
            [] language = <<"r","u","s","t">> -> Map(Rust, get_list(result, "imports"))
            [] language = <<"s","o","l","i","d","i","t","y">> -> Map(Solidity, get_list(result, "imports"))
            [] OTHER -> <<>>)

\* the classifier: every import of the record with its internal (TRUE) or
\* external (FALSE) verdict, as the dict get_dependency_graph fills
Classify(result) ==
    LET language == result.language
        Python(imp) == <<imp.name, startswith(imp.name, <<".">>)>>
        JavaScript(imp) == <<imp.source, startswith(imp.source, <<".">>)>>
        Java(imp) == IF Contains(imp, <<".">>)
                     THEN <<split(imp, <<".">>)[1], startswith(imp, <<".">>)>>
                     ELSE <<imp, FALSE>>
        Cpp(inc) == <<inc, ~(startswith(inc, <<"<">>) /\ endswith(inc, <<">">>))>>
        Go(imp) == <<imp, Contains(imp, <<"/">>) /\ ~startswith(imp, <<"g","i","t","h","u","b",".","c","o","m","/">>)>>
        Rust(imp) == LET Crate(parts) ==
                             <<parts[1], parts[1] \notin {<<"s","t","d">>, <<"c","o","r","e">>, <<"a","l","l","o","c">>}>>
                     IN  Crate(split(imp, <<":",":">>))
        Solidity(imp) == <<imp, startswith(imp, <<".","/">>) \/ startswith(imp, <<".",".","/">>)>>
    IN  dict_from(
          CASE language = <<"p","y","t","h","o","n">> -> Map(Python, get_list(result, "imports"))
            [] language \in {<<"j","a","v","a","s","c","r","i","p","t">>, <<"j","s","x","/","t","s","x">>} ->
                   Map(JavaScript, get_list(result, "imports"))
            [] language = <<"j","a","v","a">> -> Map(Java, get_list(result, "imports"))
            [] language = <<"c","/","c","+","+">> -> Map(Cpp, get_list(result, "includes"))
            [] language = <<"g","o">> -> Map(Go, get_list(result, "imports"))
            [] language = <<"r","u","s","t">> -> Map(Rust, get_list(result, "imports"))
            [] language = <<"s","o","l","i","d","i","t","y">> -> Map(Solidity, get_list(result, "imports"))
            [] OTHER -> <<>>)

ErrorKey == <<"e","r","r","o","r">>

\* get_dependency_graph: the dict of {identifier: is_internal}, or {"error": ...}
get_dependency_graph(self, files, seed) ==
    Let(parse(self, files, seed).result, LAMBDA result :
        IF IsError(result) THEN <<<<ErrorKey, "cannot build dependency graph">>>>
        ELSE Classify(result))

-----------------------------------------------------------------------------
(* ProjectAnalyzer *)

\* possible_extensions had it listed .js before .py
possible_extensions_js_first ==
    <<<<".","j","s">>, <<".","p","y">>, <<".","j","s","x">>, <<".","t","s">>, <<".","t","s","x">>, <<".","j","a","v","a">>, <<".","g","o">>, <<".","r","s">>, <<".","s","o","l">>>>

possible_extensions ==
    <<<<".","p","y">>, <<".","j","s">>, <<".","j","s","x">>, <<".","t","s">>, <<".","t","s","x">>, <<".","j","a","v","a">>, <<".","g","o">>, <<".","r","s">>, <<".","s","o","l">>>>

\* the number of leading dots of the specifier
RECURSIVE LeadingDots(_)
LeadingDots(path) ==
    IF Len(path) > 0 /\ Head(path) = "." THEN 1 + LeadingDots(Tail(path)) ELSE 0

\* source_dir after `for _ in range(n): source_dir = os.path.dirname(source_dir)`
RECURSIVE Climb(_, _)
Climb(source_dir, n) == IF n <= 0 THEN source_dir ELSE Climb(dirname(source_dir), n - 1)

\* resolve_source_dir had the loop run `level` times instead of `level - 1`
resolve_source_dir_level_times(source_file, import_path) ==
    Climb(dirname(source_file), LeadingDots(import_path))

resolve_source_dir(source_file, import_path) ==
    Climb(dirname(source_file), LeadingDots(import_path) - 1)

\* the paths _resolve_relative_import tests against the inventory, in the order
\* it tests them
resolve_candidates(root, wd, source_file, import_path) ==
    LET RECURSIVE Chain(_)
        Chain(lists) == IF Len(lists) = 0 THEN <<>> ELSE Head(lists) \o Chain(Tail(lists))
    IN
    Let(LeadingDots(import_path), LAMBDA level :
    Let(Slice(import_path, level, Len(import_path)), LAMBDA path :
    Let(resolve_source_dir(source_file, import_path), LAMBDA source_dir :
    Let(replace(path, ".", "/"), LAMBDA module_path :
        Chain(Map(LAMBDA ext :
            Let(normpath(path_join(source_dir, module_path \o ext)), LAMBDA full_path :
            Let(relpath(full_path, root, wd), LAMBDA relative_path :
                IF ext = <<".","p","y">>
                THEN Let(normpath(path_join(path_join(source_dir, module_path),
                                            <<"_","_","i","n","i","t","_","_",".","p","y">>)), LAMBDA init_path :
                         <<relative_path, relpath(init_path, root, wd)>>)
                ELSE <<relative_path>>)),
            possible_extensions))))))

\* _resolve_relative_import had it returned its first candidate without the
\* `in self.file_paths` test
_resolve_relative_import_untested(root, inventory, wd, source_file, import_path) ==
    IF ~startswith(import_path, <<".">>) THEN None
    ELSE resolve_candidates(root, wd, source_file, import_path)[1]

\* _resolve_relative_import without its test of the leading '.'
_resolve_relative_import_undotted(root, inventory, wd, source_file, import_path) ==
    Let(Filter(LAMBDA p : p \in Range(inventory),
               resolve_candidates(root, wd, source_file, import_path)),
        LAMBDA hits : IF Len(hits) > 0 THEN hits[1] ELSE None)

_resolve_relative_import(root, inventory, wd, source_file, import_path) ==
    IF ~startswith(import_path, <<".">>) THEN None
    ELSE Let(Filter(LAMBDA p : p \in Range(inventory),
                    resolve_candidates(root, wd, source_file, import_path)),
             LAMBDA hits : IF Len(hits) > 0 THEN hits[1] ELSE None)

\* the counters of _count_file_types: {ext: count} in first-seen order
RECURSIVE Histogram(_)
Histogram(keys) ==
    IF Len(keys) = 0 THEN <<>>
    ELSE LET Count(before, key) ==
                 dict_set(before, key,
                          IF dict_has(before, key) THEN dict_get(before, key) + 1 ELSE 1)
         IN  Count(Histogram(SubSeq(keys, 1, Len(keys) - 1)), keys[Len(keys)])

\* _count_file_types had it skipped the paths without a '.' instead of counting
\* them under 'unknown'
_count_file_types_dotted_only(inventory) ==
    LET Dotted_(path) == Contains(path, <<".">>)
        Ext(path) == LET parts == split(path, <<".">>) IN parts[Len(parts)]
    IN  Histogram(Map(Ext, Filter(Dotted_, inventory)))

_count_file_types(inventory) ==
    LET Ext(path) == IF Contains(path, <<".">>)
                     THEN LET parts == split(path, <<".">>) IN parts[Len(parts)]
                     ELSE <<"u","n","k","n","o","w","n">>
    IN  Histogram(Map(Ext, inventory))

\* analyzer.parse() for every analyzer of file_analyzers, in its order
Results(analyzers, files, seed) ==
    [i \in 1..Len(analyzers) |-> parse(analyzers[i][2], files, seed).result]

Ok(result) == ~IsError(result)

_collect_language_stats(analyzers, files, seed) ==
    LET HasLanguage(result) == Ok(result) /\ "language" \in DOMAIN result
        Language(result) == result.language
    IN  Histogram(Map(Language, Filter(HasLanguage, Results(analyzers, files, seed))))

\* _count_classes had it counted the Rust impl blocks too
_count_classes_with_impls(analyzers, files, seed) ==
    LET Count(result) ==
            Len(get_list(result, "classes")) + Len(get_list(result, "interfaces"))
            + Len(get_list(result, "contracts")) + Len(get_list(result, "structs"))
            + Len(get_list(result, "traits")) + Len(get_list(result, "enums"))
            + Len(get_list(result, "impls"))
    IN  Sum(Map(Count, Filter(Ok, Results(analyzers, files, seed))))

_count_classes(analyzers, files, seed) ==
    LET Count(result) ==
            Len(get_list(result, "classes")) + Len(get_list(result, "interfaces"))
            + Len(get_list(result, "contracts")) + Len(get_list(result, "structs"))
            + Len(get_list(result, "traits")) + Len(get_list(result, "enums"))
    IN  Sum(Map(Count, Filter(Ok, Results(analyzers, files, seed))))

\* _count_functions without its loop over the Solidity contracts
_count_functions_without_contracts(analyzers, files, seed) ==
    LET Methods(cls) == Len(get_list(cls, "methods"))
        Count(result) ==
            Len(get_list(result, "functions"))
            + Sum(Map(Methods, get_list(result, "classes")))
            + Sum(Map(Methods, get_list(result, "impls")))
    IN  Sum(Map(Count, Filter(Ok, Results(analyzers, files, seed))))

_count_functions(analyzers, files, seed) ==
    LET Methods(cls) == Len(get_list(cls, "methods"))
        Functions(contract) == Len(get_list(contract, "functions"))
        Count(result) ==
            Len(get_list(result, "functions"))
            + Sum(Map(Methods, get_list(result, "classes")))
            + Sum(Map(Methods, get_list(result, "impls")))
            + Sum(Map(Functions, get_list(result, "contracts")))
    IN  Sum(Map(Count, Filter(Ok, Results(analyzers, files, seed))))

\* _extract_external_dependencies had it returned list(external_deps) unsorted
_extract_external_dependencies_unsorted(graph) ==
    LET \* every (identifier, is_internal) item of every file's dict, in dict order
        RECURSIVE AllItems(_)
        AllItems(files) == IF Len(files) = 0 THEN <<>> ELSE Head(files)[2] \o AllItems(Tail(files))
        External(item) == ~item[2]
        Key(item) == item[1]
    IN  set_from(Map(Key, Filter(External, AllItems(graph))))

_extract_external_dependencies(graph) ==
    LET \* every (identifier, is_internal) item of every file's dict, in dict order
        RECURSIVE AllItems(_)
        AllItems(files) == IF Len(files) = 0 THEN <<>> ELSE Head(files)[2] \o AllItems(Tail(files))
        External(item) == ~item[2]
        Key(item) == item[1]
    IN  SortSeq(set_from(Map(Key, Filter(External, AllItems(graph)))), StrLess)

\* _build_internal_dependency_graph without its `if target_file:` test
_build_internal_dependency_graph_unfiltered(root, inventory, wd, graph) ==
    dict_from(Map(LAMBDA pair :
        Let(pair[1], LAMBDA file_path :
            <<file_path,
              Map(LAMBDA item :
                      _resolve_relative_import(root, inventory, wd, file_path, item[1]),
                  Filter(LAMBDA item : item[2], pair[2]))>>),
        graph))

_build_internal_dependency_graph(root, inventory, wd, graph) ==
    dict_from(Map(LAMBDA pair :
        Let(pair[1], LAMBDA file_path :
            <<file_path,
              Filter(Truthy,
                     Map(LAMBDA item :
                             _resolve_relative_import(root, inventory, wd, file_path, item[1]),
                         Filter(LAMBDA item : item[2], pair[2])))>>),
        graph))

\* the CodeAnalyzer once parse() has been called on it: parse() keeps the text it
\* read when the analyzer held none, and the tree of a Python text that parses
parsed_self(self, files) ==
    Let(IF Truthy(self.content) THEN Returned(self.content)
        ELSE read_file(files, self.file_path), LAMBDA text :
        IF text.raised # "" THEN self
        ELSE Let([self EXCEPT !.content = text.value], LAMBDA read_self :
             IF ~endswith(self.file_path, <<".","p","y">>) THEN read_self
             ELSE Let(ast_parse(read_self.content), LAMBDA tree :
                      IF tree = SyntaxError THEN read_self
                      ELSE [read_self EXCEPT !._parsed_ast = tree])))

\* file_analyzers once parse() has been called on each of its analyzers
parsed_analyzers(analyzers, files) ==
    Map(LAMBDA pair : <<pair[1], parsed_self(pair[2], files)>>, analyzers)

\* _build_dependency_graph: dependency_graph after the loop over file_analyzers
_build_dependency_graph(graph, analyzers, files, seed) ==
    dict_from(graph
              \o Filter(LAMBDA pair : ~dict_has(pair[2], ErrorKey),
                        Map(LAMBDA pair : <<pair[1], get_dependency_graph(pair[2], files, seed)>>,
                            analyzers)))

_generate_project_summary(root, inventory, wd, analyzers, graph, files, seed) ==
    [files |-> Len(inventory),
     analyzed_files |-> Len(analyzers),
     file_types |-> _count_file_types(inventory),
     language_stats |-> _collect_language_stats(analyzers, files, seed),
     class_count |-> _count_classes(analyzers, files, seed),
     function_count |-> _count_functions(analyzers, files, seed),
     external_dependencies |-> _extract_external_dependencies(graph),
     internal_dependencies |-> _build_internal_dependency_graph(root, inventory, wd, graph)]


\* analyze_project of a ProjectAnalyzer whose file_analyzers and dependency_graph
\* are `analyzers` and `graph` when it is called: the summary it returns
analyze_project(root, inventory, wd, analyzers, graph, files, seed) ==
    LET RECURSIVE Loop(_, _)
        \* file_analyzers after the loop over the paths
        Loop(kept, paths) ==
            IF Len(paths) = 0 THEN kept
            ELSE Let(parse(CodeAnalyzer(path_join(root, Head(paths)), None), files, seed),
                     LAMBDA analyzer :
                         Loop(IF Ok(analyzer.result)
                              THEN dict_set(kept, Head(paths), analyzer.self)
                              ELSE kept,
                              Tail(paths)))
    IN  Let(Loop(analyzers, inventory), LAMBDA file_analyzers_ :
            _generate_project_summary(
                root, inventory, wd, parsed_analyzers(file_analyzers_, files),
                _build_dependency_graph(graph, file_analyzers_, files, seed), files, seed))
-----------------------------------------------------------------------------
(* The inputs: projects (a root, a working directory, an inventory and the   *)
(* files' texts) for the project pass, single texts for the extractors.      *)

MaxFiles == 2          \* the longest inventory
MaxFragments == 4      \* the most fragments a generated text is made of
MaxSignatures == 2     \* the most language signatures a text of no known suffix holds

\* <<project_path, cwd>>
Roots == {<<<<"/","p">>, <<"/","p">>>>, <<<<"/","p">>, <<"/">>>>, <<<<".">>, <<"/","p">>>>, <<<<"/">>, <<"/">>>>}

\* the texts of the JavaScript files
Js_DotSlash == <<"i","m","p","o","r","t"," ","{","y","}"," ","f","r","o","m"," ","'",".","/","y","'",";","\n","i","m","p","o","r","t"," ","R","e","a","c","t"," ","f","r","o","m"," ","'","r","e","a","c","t","'",";","\n">>
Js_Dots == <<"i","m","p","o","r","t"," ","z"," ","f","r","o","m"," ","'",".","y","'",";","\n","i","m","p","o","r","t"," ","a"," ","f","r","o","m"," ","'",".",".","y","'",";","\n","i","m","p","o","r","t"," ","c"," ","f","r","o","m"," ","'",".","/","g","o","n","e","'",";","\n">>
Js_UpUp == <<"i","m","p","o","r","t"," ","d"," ","f","r","o","m"," ","'",".",".",".","y","'",";","\n","i","m","p","o","r","t"," ","e"," ","f","r","o","m"," ","'",".",".","/","y","'",";","\n">>
Js_Plain == <<"e","x","p","o","r","t"," ","c","o","n","s","t"," ","y"," ","="," ","1",";","\n">>

\* the paths a project may hold, with the texts each may have
Universe ==
    <<<<"x",".","j","s">>, <<"y",".","j","s">>, <<"a","/","x",".","j","s">>, <<"a","/","y",".","j","s">>, <<"a","/","b","/","c",".","j","s">>, <<"m",".","p","y">>>>

TextsOf(path) ==
    CASE path = <<"x",".","j","s">> -> {Js_DotSlash, Js_Dots, Unreadable}
      [] path = <<"y",".","j","s">> -> {Js_Plain}
      [] path = <<"a","/","x",".","j","s">> -> {Js_DotSlash, Js_Dots}
      [] path = <<"a","/","y",".","j","s">> -> {Js_Plain}
      [] path = <<"a","/","b","/","c",".","j","s">> -> {Js_UpUp}
      [] path = <<"m",".","p","y">> -> {Py_Small, Py_Broken, Py_PosOnly, Unreadable}

\* the paths a project of several languages may hold
LanguageUniverse ==
    <<<<"M","a","k","e","f","i","l","e">>, <<"A",".","j","a","v","a">>, <<"u",".","c">>, <<"l","i","b",".","r","s">>, <<"c",".","s","o","l">>, <<"g",".","g","o">>, <<"e",".","j","s">>,
      <<"m",".","p","y">>, <<"m","/","_","_","i","n","i","t","_","_",".","p","y">>, <<"m",".","j","s">>>>

\* the texts each of them may have
LanguageTextsOf(path) ==
    LET Java_Types ==
            <<"i","m","p","o","r","t"," ","j","a","v","a",".","u","t","i","l",".","L","i","s","t",";","\n","i","m","p","o","r","t"," ","f","o","o",";","\n","i","n","t","e","r","f","a","c","e"," ","I"," ","{"," ","}","\n","c","l","a","s","s"," ","A"," ","{"," ","v","o","i","d"," ","f","(",")"," ","{"," ","}"," ","}","\n">>
        Java_Dotted == <<"i","m","p","o","r","t"," ",".","r","e","l",".","Q",";","\n","i","m","p","o","r","t"," ","s","t","a","t","i","c"," ","a",".","B",".","c",";","\n">>
        C_Includes ==
            <<"#","i","n","c","l","u","d","e"," ","<","s","t","d","i","o",".","h",">","\n","#","i","n","c","l","u","d","e"," ","\"","u",".","h","\"","\n","i","n","t"," ","f","(","i","n","t"," ","a",")"," ","{"," ","r","e","t","u","r","n"," ","a",";"," ","}","\n">>
        Rust_Items ==
            <<"u","s","e"," ","s","t","d",":",":","f","m","t",";","\n","u","s","e"," ","f","o","o",":",":","b","a","r",";","\n","u","s","e"," ","m",":",":","x",";","\n","s","t","r","u","c","t"," ","S"," ","{"," ","}","\n","t","r","a","i","t"," ","T"," ","{"," ","}","\n","e","n","u","m"," ","E"," ","{"," ","}","\n","i","m","p","l"," ","S"," ","{"," ","f","n"," ","a","(",")"," ","{","}"," ","}","\n","f","n"," ","b","(",")"," ","{","}","\n">>
        Sol_Contract ==
            <<"i","m","p","o","r","t"," ","\"",".","/","a",".","s","o","l","\"",";","\n","i","m","p","o","r","t"," ","\"","l","i","b","/","x",".","s","o","l","\"",";","\n","c","o","n","t","r","a","c","t"," ","C"," ","{"," ","f","u","n","c","t","i","o","n"," ","f","(",")"," ","p","u","b","l","i","c"," ","{","}"," ","}","\n">>
        Go_Items ==
            <<"p","a","c","k","a","g","e"," ","g","\n","i","m","p","o","r","t"," ","\"","f","m","t","\"","\n","i","m","p","o","r","t"," ","\"","a","/","b","\"","\n","t","y","p","e"," ","S"," ","s","t","r","u","c","t"," ","{"," ","}","\n","f","u","n","c"," ","F","(",")"," ","{"," ","}","\n">>
        Js_Error == <<"i","m","p","o","r","t"," ","e"," ","f","r","o","m"," ","'","e","r","r","o","r","'",";","\n","i","m","p","o","r","t"," ","R","e","a","c","t"," ","f","r","o","m"," ","'","r","e","a","c","t","'",";","\n">>
        Js_Class == <<"i","m","p","o","r","t"," ","z"," ","f","r","o","m"," ","'",".","/","z","'",";","\n","c","l","a","s","s"," ","K"," ","{"," ","m","(",")"," ","{","}"," ","}","\n","f","u","n","c","t","i","o","n"," ","f","(",")"," ","{","}","\n">>
        Js_Twice == <<"i","m","p","o","r","t"," ","z"," ","f","r","o","m"," ","'",".","m","'",";","\n","i","m","p","o","r","t"," ","a"," ","f","r","o","m"," ","'",".","m","'",";","\n","i","m","p","o","r","t"," ","b"," ","f","r","o","m"," ","'",".",".","m","'",";","\n">>
        Make_Rules == <<"a","l","l",":","\n","\t","c","c"," ","x",".","c","\n">>
    IN  CASE path = <<"M","a","k","e","f","i","l","e">> -> {Make_Rules, Unreadable}
          [] path = <<"A",".","j","a","v","a">> -> {Java_Types, Java_Dotted}
          [] path = <<"u",".","c">> -> {C_Includes}
          [] path = <<"l","i","b",".","r","s">> -> {Rust_Items}
          [] path = <<"c",".","s","o","l">> -> {Sol_Contract}
          [] path = <<"g",".","g","o">> -> {Go_Items}
          [] path = <<"e",".","j","s">> -> {Js_Error, Js_Class, Js_Twice}
          [] path = <<"m",".","p","y">> -> {Py_ClassAB, Py_Small, Py_Broken, <<>>}
          [] path = <<"m","/","_","_","i","n","i","t","_","_",".","p","y">> -> {<<>>}
          [] path = <<"m",".","j","s">> -> {Js_Plain}

\* the sub-sequences of Universe of at most MaxFiles paths
Inventories ==
    LET Pick(S) == LET Chosen(i) == i \in S
                       at == Filter(Chosen, [i \in 1..Len(Universe) |-> i])
                   IN  [i \in 1..Len(at) |-> Universe[at[i]]]
    IN  {Pick(S) : S \in {S \in SUBSET (1..Len(Universe)) : Cardinality(S) <= MaxFiles}}

\* the sub-sequences of LanguageUniverse of at most MaxFiles paths
LanguageInventories ==
    LET Pick(S) == LET Chosen(i) == i \in S
                       at == Filter(Chosen, [i \in 1..Len(LanguageUniverse) |-> i])
                   IN  [i \in 1..Len(at) |-> LanguageUniverse[at[i]]]
    IN  {Pick(S) : S \in {S \in SUBSET (1..Len(LanguageUniverse)) : Cardinality(S) <= MaxFiles}}

\* the file systems that hold one of the texts Texts(path) for every path
FileSystemsOf(Texts(_), root, inventory) ==
    LET Full(path) == path_join(root, path)
        paths == {Full(inventory[i]) : i \in 1..Len(inventory)}
        texts == UNION {Texts(inventory[i]) : i \in 1..Len(inventory)}
    IN  {files \in [paths -> texts] :
            \A i \in 1..Len(inventory) : files[Full(inventory[i])] \in Texts(inventory[i])}

\* the file systems that hold a text (or an unreadable file) for every path
FileSystems(root, inventory) == FileSystemsOf(TextsOf, root, inventory)

\* the hash seeds of a process (PYTHONHASHSEED) that lists the sets: every way of
\* giving each of the sets one of the orders of its members
RECURSIVE HashSeeds(_)
HashSeeds(sets) ==
    IF sets = {} THEN {InsertionOrder}
    ELSE LET s == CHOOSE s \in sets : TRUE
             RECURSIVE Factorial(_)
             Factorial(n) == IF n <= 1 THEN 1 ELSE n * Factorial(n - 1)
         IN  {(s :> k) @@ seed : k \in 0..(Factorial(Len(s)) - 1), seed \in HashSeeds(sets \ {s})}

\* the sets of two members and more that parse() of the file lists, as inserted
ListedSets(path, text) ==
    LET Listed(result) ==
            {s \in {get_list(result, "dependencies")} : Len(s) >= 2}
    IN  Listed(parse(CodeAnalyzer(path, None), (path :> text), InsertionOrder).result)

\* the hash seeds of a process that analyzes the project
HashSeedsOf(root, inventory, files) ==
    HashSeeds(UNION {ListedSets(path_join(root, inventory[i]), files[path_join(root, inventory[i])])
                         : i \in 1..Len(inventory)})

\* the texts made of at most n of the fragments
RECURSIVE Concats(_, _)
Concats(fragments, n) ==
    IF n = 0 THEN {<<>>}
    ELSE {<<>>} \cup {f \o t : f \in fragments, t \in Concats(fragments, n - 1)}

Rust_fragments ==
    {<<"i","m","p","l"," ","F","o","o"," ","{">>, <<" ","f","n"," ","b","a","r","(",")"," ","{","}">>, <<" ","}">>, <<" ","f","n"," ","b","a","z","(",")"," ","{","}">>, <<" ","f","n"," ","a","(",")"," ","{">>}
Js_fragments == {<<"c","l","a","s","s"," ","K"," ","{">>, <<" ","m","(",")"," ","{","}">>, <<" ","}">>}
Sol_fragments ==
    {<<"c","o","n","t","r","a","c","t"," ","C"," ","{">>, <<" ","f","u","n","c","t","i","o","n"," ","f","(",")"," ","p","u","b","l","i","c"," ","{","}">>, <<" ","}">>}

\* <<path, text>>: the single files the extractors are called on
ExtractInputs ==
    LET \* one line for each signature _detect_language looks for
        Signature_fragments ==
            {<<"<","h","t","m","l",">","\n">>, <<"i","m","p","o","r","t"," ","R","e","a","c","t","\n">>, <<"i","m","p","o","r","t"," ","{","a","}"," ","f","r","o","m"," ","'","b","'","\n">>, <<"p","a","c","k","a","g","e"," ","a",".","b",";","\n">>,
             <<"v","o","i","d"," ","f","(","\n">>, <<"d","e","f"," ","f","(","x",")",":","\n">>, <<"f","u","n","c"," ","F","(","\n">>, <<"f","n"," ","g","(","\n">>, <<"c","o","n","t","r","a","c","t"," ","C","\n">>}
        \* texts with letters and spaces beyond ASCII
        Js_Latin1 ==
            <<"i","m","p","o","r","t"," ","é"," ","f","r","o","m"," ","'","µ","'",";","\n","c","l","a","s","s"," ","C","a","f","é","","e","x","t","e","n","d","s"," ","Ü","n","ï"," ","{"," ","m","(",")"," ","{","}"," ","}","\n","f","u","n","c","t","i","o","n"," ","ß","(",")"," ","{","}","\n">>
        Java_Latin1 ==
            <<"i","m","p","o","r","t"," ","é",".","É",";","\n","c","l","a","s","s"," ","Ä"," ","i","m","p","l","e","m","e","n","t","s","","I"," ",",","","J"," ","{"," ","v","o","i","d"," ","µ","(","i","n","t"," ","²",")"," ","{"," ","}"," ","}","\n">>
        Make_Latin1 == <<"d","e","f"," ","é","(","x",")",":","\n","","c","l","a","s","s"," ","É","","{","\n">>
    IN  {<<<<"l","i","b",".","r","s">>, t>> : t \in Concats(Rust_fragments, MaxFragments)}
        \cup {<<<<"k",".","j","s">>, t>> : t \in Concats(Js_fragments, MaxFragments)}
        \cup {<<<<"c",".","s","o","l">>, t>> : t \in Concats(Sol_fragments, MaxFragments)}
        \cup {<<<<"m",".","p","y">>, PyCorpus[i][1]>> : i \in 1..Len(PyCorpus)}
        \cup {<<<<"M","a","k","e","f","i","l","e">>, t>> : t \in Concats(Signature_fragments, MaxSignatures)}
        \cup {<<<<"u",".","j","s">>, Js_Latin1>>, <<<<"A",".","j","a","v","a">>, Java_Latin1>>, <<<<"M","a","k","e","f","i","l","e">>, Make_Latin1>>}

-----------------------------------------------------------------------------
(* The project pass: ProjectAnalyzer(project_path, file_paths).analyze_project() *)

Init ==
    /\ \E r \in Roots : project_path = r[1] /\ cwd = r[2]
    /\ file_paths \in Inventories
    /\ fs \in FileSystems(project_path, file_paths)
    /\ hash_seed \in HashSeedsOf(project_path, file_paths, fs)
    /\ file_analyzers = <<>>
    /\ dependency_graph = <<>>
    /\ pc = "analyze"
    /\ idx = 0
    /\ parsed = <<>>
    /\ summary = NoValue
    /\ call = NoValue

\* one turn of analyze_project's loop over file_paths
AnalyzeFile ==
    /\ pc = "analyze"
    /\ idx < Len(file_paths)
    /\ LET file_path == At(file_paths, idx)
           full_path == path_join(project_path, file_path)
           analyzer == parse(CodeAnalyzer(full_path, None), fs, hash_seed)
       IN  /\ file_analyzers' = IF Ok(analyzer.result)
                                THEN dict_set(file_analyzers, file_path, analyzer.self)
                                ELSE file_analyzers
           /\ parsed' = Append(parsed, <<file_path, analyzer.result>>)
    /\ idx' = idx + 1
    /\ UNCHANGED <<project_path, file_paths, dependency_graph, cwd, hash_seed, fs, pc,
                   summary, call>>

\* _build_dependency_graph(): get_dependency_graph() of every stored analyzer, whose
\* parse() leaves the analyzer with the text it read
BuildDependencyGraph ==
    /\ pc = "analyze"
    /\ idx = Len(file_paths)
    /\ dependency_graph' = _build_dependency_graph(dependency_graph, file_analyzers, fs, hash_seed)
    /\ file_analyzers' = parsed_analyzers(file_analyzers, fs)
    /\ pc' = "summary"
    /\ UNCHANGED <<project_path, file_paths, cwd, hash_seed, fs, idx, parsed, summary, call>>

GenerateSummary ==
    /\ pc = "summary"
    /\ summary' = _generate_project_summary(project_path, file_paths, cwd, file_analyzers,
                                             dependency_graph, fs, hash_seed)
    /\ file_analyzers' = parsed_analyzers(file_analyzers, fs)
    /\ pc' = "done"
    /\ UNCHANGED <<project_path, file_paths, dependency_graph, cwd, hash_seed, fs, idx,
                   parsed, call>>

Next == AnalyzeFile \/ BuildDependencyGraph \/ GenerateSummary

Spec == Init /\ [][Next]_vars

-----------------------------------------------------------------------------
(* The project pass over a project of several languages *)

InitLanguages ==
    /\ project_path = <<"/","p">>
    /\ cwd = <<"/","p">>
    /\ file_paths \in LanguageInventories
    /\ fs \in FileSystemsOf(LanguageTextsOf, project_path, file_paths)
    /\ hash_seed \in HashSeedsOf(project_path, file_paths, fs)
    /\ file_analyzers = <<>>
    /\ dependency_graph = <<>>
    /\ pc = "analyze"
    /\ idx = 0
    /\ parsed = <<>>
    /\ summary = NoValue
    /\ call = NoValue

SpecLanguages == InitLanguages /\ [][Next]_vars

-----------------------------------------------------------------------------
(* The project pass over the files whose order the summary could show: two   *)
(* files with external dependencies, two with an edge between them and one   *)
(* that may be unreadable                                                    *)

InitOrder ==
    /\ InitLanguages
    /\ Range(file_paths) \subseteq {<<"M","a","k","e","f","i","l","e">>, <<"A",".","j","a","v","a">>, <<"g",".","g","o">>, <<"e",".","j","s">>, <<"m",".","j","s">>}

SpecOrder == InitOrder /\ [][Next]_vars

-----------------------------------------------------------------------------
(* One ProjectAnalyzer called again and again, over files that are edited *)
(* between its passes                                                     *)

\* the files are rewritten later on: the process lists the sets of every text a
\* file of the project can hold
InitReuse ==
    /\ project_path = <<"/","p">>
    /\ cwd = <<"/","p">>
    /\ file_paths \in LanguageInventories
    /\ Range(file_paths) \subseteq {<<"M","a","k","e","f","i","l","e">>, <<"e",".","j","s">>, <<"m",".","p","y">>}
    /\ fs \in FileSystemsOf(LanguageTextsOf, project_path, file_paths)
    /\ hash_seed \in HashSeeds(UNION {UNION {ListedSets(path_join(project_path, file_paths[i]), text)
                                                : text \in LanguageTextsOf(file_paths[i])}
                                        : i \in 1..Len(file_paths)})
    /\ file_analyzers = <<>>
    /\ dependency_graph = <<>>
    /\ pc = "analyze"
    /\ idx = 0
    /\ parsed = <<>>
    /\ summary = NoValue
    /\ call = NoValue

\* a file of the project is rewritten between two passes
WriteFile ==
    /\ pc = "done"
    /\ \E path \in Range(file_paths) :
          \E text \in LanguageTextsOf(path) \ {fs[path_join(project_path, path)]} :
              fs' = [fs EXCEPT ![path_join(project_path, path)] = text]
    /\ pc' = "edited"
    /\ UNCHANGED <<project_path, file_paths, file_analyzers, dependency_graph, cwd,
                   hash_seed, idx, parsed, summary, call>>

\* analyze_project is called again on the same ProjectAnalyzer
AnalyzeAgain ==
    /\ pc \in {"done", "edited"}
    /\ pc' = "analyze"
    /\ idx' = 0
    /\ parsed' = <<>>
    /\ summary' = NoValue
    /\ call' = NoValue
    /\ UNCHANGED <<project_path, file_paths, file_analyzers, dependency_graph, cwd,
                   hash_seed, fs>>

NextReuse == Next \/ WriteFile \/ AnalyzeAgain

SpecReuse == InitReuse /\ [][NextReuse]_vars

-----------------------------------------------------------------------------
(* The resolver alone: ProjectAnalyzer(project_path, file_paths) and a call  *)
(* of _resolve_relative_import, which reads no file                          *)

\* the inventories of both universes, their files empty
InitResolve ==
    /\ \E r \in Roots : project_path = r[1] /\ cwd = r[2]
    /\ file_paths \in Inventories \cup LanguageInventories
    /\ fs = [path \in {path_join(project_path, file_paths[i]) : i \in 1..Len(file_paths)} |-> <<>>]
    /\ hash_seed \in HashSeedsOf(project_path, file_paths, fs)
    /\ file_analyzers = <<>>
    /\ dependency_graph = <<>>
    /\ pc = "analyze"
    /\ idx = 0
    /\ parsed = <<>>
    /\ summary = NoValue
    /\ call = NoValue

\* the import specifiers _resolve_relative_import is called with directly
Specifiers ==
    {<<".","y">>, <<".",".","y">>, <<".",".",".","y">>, <<".",".",".",".","y">>, <<".","/","y">>, <<".","b",".","c">>, <<"y">>, <<".","m">>, <<".","u">>}

\* a call of _resolve_relative_import
CallResolve ==
    /\ call = NoValue
    /\ \E source_file \in Range(file_paths), import_path \in Specifiers :
          call' = [op |-> "resolve",
                   source_file |-> source_file,
                   import_path |-> import_path,
                   source_dir |-> resolve_source_dir(source_file, import_path),
                   candidates |-> resolve_candidates(project_path, cwd, source_file, import_path),
                   returned |-> _resolve_relative_import(project_path, file_paths, cwd,
                                                         source_file, import_path)]
    /\ UNCHANGED <<project_path, file_paths, file_analyzers, dependency_graph, cwd,
                   hash_seed, fs, pc, idx, parsed, summary>>

NextResolve == CallResolve

SpecResolve == InitResolve /\ [][NextResolve]_vars

-----------------------------------------------------------------------------
(* The extractors alone: CodeAnalyzer(path).parse() on one file, and again *)

InitExtract ==
    /\ project_path = <<"/","p">>
    /\ cwd = <<"/","p">>
    /\ \E input \in ExtractInputs :
          /\ file_paths = <<input[1]>>
          /\ fs = (path_join(project_path, input[1]) :> input[2])
    /\ hash_seed \in HashSeedsOf(project_path, file_paths, fs)
    /\ file_analyzers = <<>>
    /\ dependency_graph = <<>>
    /\ pc = "extract"
    /\ idx = 0
    /\ parsed = <<>>
    /\ summary = NoValue
    /\ call = NoValue

\* the first parse() of a new CodeAnalyzer
CallParse ==
    /\ pc = "extract"
    /\ call = NoValue
    /\ LET full_path == path_join(project_path, file_paths[1])
           first == parse(CodeAnalyzer(full_path, None), fs, hash_seed)
       IN  call' = [op |-> "parse", text |-> fs[full_path], analyzer |-> first.self,
                    returned |-> first.result]
    /\ UNCHANGED <<project_path, file_paths, file_analyzers, dependency_graph, cwd,
                   hash_seed, fs, pc, idx, parsed, summary>>

\* a second parse() of the same text: by the same CodeAnalyzer, or by a new one
\* that is handed the text or left to read the file, made in the same process
\* or in another one, whose sets have their own orders
CallParseAgain ==
    /\ pc = "extract"
    /\ call # NoValue
    /\ call.op = "parse"
    /\ \E same \in BOOLEAN, handed \in BOOLEAN,
          seed \in HashSeedsOf(project_path, file_paths, fs) :
          /\ same => (~handed /\ seed = hash_seed)
          /\ LET full_path == path_join(project_path, file_paths[1])
                 content == IF handed THEN fs[full_path] ELSE None
                 analyzer == IF same THEN call.analyzer ELSE CodeAnalyzer(full_path, content)
                 second == parse(analyzer, fs, seed)
             IN  call' = [op |-> "parse again", text |-> call.text, analyzer |-> second.self,
                          same_instance |-> same, handed |-> handed, seed |-> seed,
                          first |-> call.returned, returned |-> second.result]
    /\ UNCHANGED <<project_path, file_paths, file_analyzers, dependency_graph, cwd,
                   hash_seed, fs, pc, idx, parsed, summary>>

\* _find_class_content(start_pos) of a CodeAnalyzer that holds the text of the
\* JavaScript file, for every offset into the text
CallFindClassContent ==
    /\ pc = "extract"
    /\ call = NoValue
    /\ file_paths = <<<<"k",".","j","s">>>>
    /\ LET content == fs[path_join(project_path, file_paths[1])]
       IN  \E start_pos \in 0..Len(content) :
               call' = [op |-> "find", text |-> content, start_pos |-> start_pos,
                        returned |-> _find_class_content(content, start_pos)]
    /\ UNCHANGED <<project_path, file_paths, file_analyzers, dependency_graph, cwd,
                   hash_seed, fs, pc, idx, parsed, summary>>

NextExtract == CallParse \/ CallParseAgain \/ CallFindClassContent

SpecExtract == InitExtract /\ [][NextExtract]_vars

-----------------------------------------------------------------------------
(* The claims about the project pass (specification Spec) *)

\* C1: in the summary of a pass over an inventory that holds x.js and y.js, where
\* x.js imports the specifier './y', the adjacency list of x.js contains y.js.
C1_SiblingImportIsAnEdge ==
    (/\ pc = "done"
     /\ <<"x",".","j","s">> \in Range(file_paths)
     /\ <<"y",".","j","s">> \in Range(file_paths)
     /\ Ok(dict_get(parsed, <<"x",".","j","s">>))
     /\ \E imp \in Range(dict_get(parsed, <<"x",".","j","s">>).imports) : imp.source = <<".","/","y">>)
    => /\ dict_has(summary.internal_dependencies, <<"x",".","j","s">>)
       /\ <<"y",".","j","s">> \in Range(dict_get(summary.internal_dependencies, <<"x",".","j","s">>))

\* the pass has returned for x.js importing './y' beside y.js, working directory
\* and project root the same directory /p, and x.js has no edge at all
C1_SiblingImportIsDropped ==
    /\ pc = "done"
    /\ project_path = <<"/","p">> /\ cwd = <<"/","p">>
    /\ file_paths = <<<<"x",".","j","s">>, <<"y",".","j","s">>>>
    /\ Ok(dict_get(parsed, <<"x",".","j","s">>))
    /\ \E imp \in Range(dict_get(parsed, <<"x",".","j","s">>).imports) : imp.source = <<".","/","y">>
    /\ dict_get(summary.internal_dependencies, <<"x",".","j","s">>) = <<>>

\* the identifiers of file_path's dict that are classified internal and that
\* _resolve_relative_import does (hit) or does not resolve to a path
Internals(file_path, hit) ==
    LET Wanted(item) ==
            /\ item[2]
            /\ (_resolve_relative_import(project_path, file_paths, cwd, file_path, item[1])
                    # None) = hit
    IN  Filter(Wanted, dict_get(dependency_graph, file_path))

StartsWithDot(item) == startswith(item[1], <<".">>)

\* C2: when an identifier classified internal and starting with '.' resolves to
\* no entry of the inventory, analyze_project still returns its summary, the
\* source file's adjacency list has no entry for it (neither None nor the
\* identifier: the list holds one entry per identifier that does resolve), and
\* the identifier is not in the external dependency set.
C2_UnresolvedInternalIsDropped ==
    pc = "done" =>
        \A f \in 1..Len(dependency_graph) :
            LET file_path == dependency_graph[f][1]
                missed == Filter(StartsWithDot, Internals(file_path, FALSE))
                adjacency == dict_get(summary.internal_dependencies, file_path)
            IN  Len(missed) > 0 =>
                  /\ DOMAIN summary = {"files", "analyzed_files", "file_types",
                                       "language_stats", "class_count", "function_count",
                                       "external_dependencies", "internal_dependencies"}
                  /\ dict_has(summary.internal_dependencies, file_path)
                  /\ None \notin Range(adjacency)
                  /\ Len(adjacency) = Len(Internals(file_path, TRUE))
                  /\ \A m \in 1..Len(missed) :
                        /\ missed[m][1] \notin Range(adjacency)
                        /\ missed[m][1] \notin Range(summary.external_dependencies)

\* the pass has returned for a file with three dotted internal identifiers of
\* which two resolve: the adjacency list holds the two hits and nothing for the miss
C2_Witness ==
    /\ pc = "done"
    /\ dict_has(dependency_graph, <<"x",".","j","s">>)
    /\ Len(Filter(StartsWithDot, Internals(<<"x",".","j","s">>, FALSE))) = 1
    /\ Len(Internals(<<"x",".","j","s">>, TRUE)) = 2
    /\ dict_get(summary.internal_dependencies, <<"x",".","j","s">>) = <<<<"y",".","j","s">>, <<"y",".","j","s">>>>

\* C9: every target in any file's adjacency list of the summary is an element of
\* the inventory (the same string), and _resolve_relative_import returns either
\* None or a member of the inventory (for every file of the inventory and every
\* identifier a file of the project depends on).
C9_TargetsAreInventoryMembers ==
    pc = "done" =>
        /\ \A f \in 1..Len(summary.internal_dependencies) :
               \A target \in Range(summary.internal_dependencies[f][2]) :
                   \E i \in 1..Len(file_paths) : file_paths[i] = target
        /\ \A source_file \in Range(file_paths) :
               \A import_path \in UNION {Range(get_list(parsed[k][2], "dependencies"))
                                             : k \in 1..Len(parsed)} :
                   Let(_resolve_relative_import(project_path, file_paths, cwd,
                                                source_file, import_path),
                       LAMBDA returned :
                           \/ returned = None
                           \/ \E i \in 1..Len(file_paths) : file_paths[i] = returned)

\* a summary with an edge out of a/x.js, whose identifier '.y' the resolver
\* returns a/y.js for
C9_Witness ==
    /\ pc = "done"
    /\ file_paths = <<<<"a","/","x",".","j","s">>, <<"a","/","y",".","j","s">>>>
    /\ <<".","y">> \in Range(parsed[1][2].dependencies)
    /\ dict_has(summary.internal_dependencies, <<"a","/","x",".","j","s">>)
    /\ dict_get(summary.internal_dependencies, <<"a","/","x",".","j","s">>) = <<<<"a","/","y",".","j","s">>>>
    /\ _resolve_relative_import(project_path, file_paths, cwd, <<"a","/","x",".","j","s">>, <<".","y">>) = <<"a","/","y",".","j","s">>
    /\ _resolve_relative_import(project_path, file_paths, cwd, <<"a","/","y",".","j","s">>, <<".","y">>) = <<"a","/","y",".","j","s">>

-----------------------------------------------------------------------------
(* The claims about the resolver alone (specification SpecResolve) *)

\* C3: the resolver counts the specifier's leading dots as level and starts the
\* candidate at the source file's directory climbed level - 1 times (one dot: the
\* file's own directory; a/b/c.* with three dots: two directories above a/b),
\* and the remaining segments are appended there.
C3_ClimbsLevelMinusOneDirectories ==
    (call # NoValue /\ call.op = "resolve" /\ startswith(call.import_path, <<".">>)) =>
        LET spec == call.import_path
            level == Cardinality({n \in 1..Len(spec) : \A j \in 1..n : spec[j] = "."})
            segments == split(call.source_file, Slash)
            directories == SubSeq(segments, 1, Len(segments) - 1)
            left == IF level - 1 >= Len(directories) THEN 0
                    ELSE Len(directories) - (level - 1)
            start == join(Slash, SubSeq(directories, 1, left))
            remaining == replace(SubSeq(spec, level + 1, Len(spec)), ".", "/")
        IN  /\ call.source_dir = start
            /\ call.candidates[1] =
                   relpath(normpath(path_join(start, remaining \o <<".","p","y">>)), project_path, cwd)

\* the resolver was called for a/b/c.js with three dots: two directories above
\* a/b is the project root, where y.py is the first candidate
C3_Witness ==
    /\ call # NoValue
    /\ call.op = "resolve"
    /\ call.source_file = <<"a","/","b","/","c",".","j","s">>
    /\ project_path = <<"/","p">> /\ cwd = <<"/","p">>
    /\ call.import_path = <<".",".",".","y">>
    /\ call.source_dir = <<>>
    /\ call.candidates[1] = <<"y",".","p","y">>

-----------------------------------------------------------------------------
(* The claims about the files the pass leaves out (specification Spec) *)

\* a file whose text cannot be read, or a Python file with a syntax error
Failing(file_path) ==
    LET text == fs[path_join(project_path, file_path)]
    IN  \/ text = Unreadable
        \/ endswith(file_path, <<".","p","y">>) /\ ast_parse(text) = SyntaxError

\* C10: a file whose text cannot be read, or a Python file with a syntax error,
\* yields a record that carries only an error message; the pass still returns
\* its summary and has processed every path; the failing file adds to the
\* extension histogram and the total file count, and to no other aggregate:
\* language counts, class and function counts, the external set and the
\* adjacency are those of the other files' records.
C10_FailingFileIsLeftOut ==
    pc = "done" =>
        LET Failed(pair) == Failing(pair[1])
            Passed(pair) == ~Failing(pair[1]) /\ Ok(pair[2])
            Record(pair) == pair[2]
            Path(pair) == pair[1]
            kept == Filter(Passed, parsed)
            Classes(r) == Len(get_list(r, "classes")) + Len(get_list(r, "interfaces"))
                          + Len(get_list(r, "contracts")) + Len(get_list(r, "structs"))
                          + Len(get_list(r, "traits")) + Len(get_list(r, "enums"))
            Methods(c) == Len(get_list(c, "methods"))
            Members(c) == Len(get_list(c, "functions"))
            Functions(r) == Len(get_list(r, "functions"))
                            + Sum(Map(Methods, get_list(r, "classes")))
                            + Sum(Map(Methods, get_list(r, "impls")))
                            + Sum(Map(Members, get_list(r, "contracts")))
            Classified(pair) == <<pair[1], Classify(pair[2])>>
            Count(entry) == entry[2]
        IN  /\ \A i \in 1..Len(parsed) :
                  Failed(parsed[i]) =>
                      /\ DOMAIN parsed[i][2] = {"error"}
                      /\ ~dict_has(file_analyzers, parsed[i][1])
                      /\ ~dict_has(dependency_graph, parsed[i][1])
                      /\ ~dict_has(summary.internal_dependencies, parsed[i][1])
            /\ Map(Path, parsed) = file_paths
            /\ summary.files = Len(file_paths)
            /\ Sum(Map(Count, summary.file_types)) = Len(file_paths)
            /\ summary.analyzed_files = Len(kept)
            /\ Sum(Map(Count, summary.language_stats)) = Len(kept)
            /\ \A l \in 1..Len(summary.language_stats) :
                  summary.language_stats[l][2] =
                      Cardinality({k \in 1..Len(kept) :
                                      kept[k][2].language = summary.language_stats[l][1]})
            /\ summary.class_count = Sum(Map(Classes, Map(Record, kept)))
            /\ summary.function_count = Sum(Map(Functions, Map(Record, kept)))
            /\ summary.external_dependencies =
                   _extract_external_dependencies(Map(Classified, kept))
            /\ Map(Path, summary.internal_dependencies) = Map(Path, kept)

\* the pass has returned for an inventory whose first file failed and whose
\* second file was processed and alone makes the aggregates
C10_Witness ==
    /\ pc = "done"
    /\ Len(file_paths) = 2
    /\ Failing(file_paths[1])
    /\ DOMAIN parsed[1][2] = {"error"}
    /\ Ok(parsed[2][2])
    /\ summary.files = 2
    /\ summary.analyzed_files = 1
    /\ Len(summary.external_dependencies) > 0
    /\ Len(summary.internal_dependencies) = 1

-----------------------------------------------------------------------------
(* The claims about the extractors (specification SpecExtract) *)

Names(entries) == {entries[i].name : i \in 1..Len(entries)}

\* C4: the Rust extractor, on a text made of `impl Foo { fn bar() {} }` and
\* `fn baz() {}` in either order, lists bar in the methods of the impl Foo entry
\* and not in the top-level functions, and lists baz in the top-level functions
\* and in no impl's methods.
C4_ImplMethodsAndFreeFunctions ==
    (/\ call # NoValue
     /\ call.op = "parse"
     /\ file_paths = <<<<"l","i","b",".","r","s">>>>
     /\ call.text \in {<<"i","m","p","l"," ","F","o","o"," ","{"," ","f","n"," ","b","a","r","(",")"," ","{","}"," ","}"," ","f","n"," ","b","a","z","(",")"," ","{","}">>,
                       <<" ","f","n"," ","b","a","z","(",")"," ","{","}","i","m","p","l"," ","F","o","o"," ","{"," ","f","n"," ","b","a","r","(",")"," ","{","}"," ","}">>})
    => LET record == call.returned IN
       /\ Ok(record)
       /\ \E i \in 1..Len(record.impls) :
             record.impls[i].type = <<"F","o","o">> /\ <<"b","a","r">> \in Names(record.impls[i].methods)
       /\ <<"b","a","r">> \notin Names(record.functions)
       /\ <<"b","a","z">> \in Names(record.functions)
       /\ \A i \in 1..Len(record.impls) : <<"b","a","z">> \notin Names(record.impls[i].methods)

\* the Rust extractor returned, for the impl block followed by the free function,
\* an impl Foo entry without methods: bar is listed nowhere
C4_MethodIsLost ==
    /\ call # NoValue
    /\ call.op = "parse"
    /\ file_paths = <<<<"l","i","b",".","r","s">>>>
    /\ call.text = <<"i","m","p","l"," ","F","o","o"," ","{"," ","f","n"," ","b","a","r","(",")"," ","{","}"," ","}"," ","f","n"," ","b","a","z","(",")"," ","{","}">>
    /\ Len(call.returned.impls) = 1
    /\ call.returned.impls[1].type = <<"F","o","o">>
    /\ call.returned.impls[1].methods = <<>>
    /\ Names(call.returned.functions) = {<<"b","a","z">>}

\* the record's parameter list of a function agrees with the definition: the
\* positional parameters in order, the k defaults on the last k of them
ArgsAgree(entry, node) ==
    LET positional == node.args.posonlyargs \o node.args.args
        defaults == node.args.defaults
        n == Len(positional)
        k == Len(defaults)
    IN  /\ Len(entry.args) = n
        /\ \A i \in 1..n :
              /\ entry.args[i].name = positional[i].arg
              /\ IF i > n - k
                 THEN /\ "default" \in DOMAIN entry.args[i]
                      /\ entry.args[i].default = _get_default_value(defaults[i - (n - k)])
                 ELSE "default" \notin DOMAIN entry.args[i]

IsFunction(node) == node.type = "FunctionDef"
IsClass(node) == node.type = "ClassDef"
IsDef(node) == node.type \in {"FunctionDef", "AsyncFunctionDef"}

\* C5: the Python extractor, on class A with base B defining f(self, x=1), returns
\* a record whose class entry A has B in its bases and f in its methods, f's
\* parameter x carrying the default 1; and for every function of a text (at
\* module level or in a class body), its k defaults are attached, in order, to
\* the last k of its n positional parameters.
C5_DefaultsOnLastParameters ==
    (/\ call # NoValue
     /\ call.op = "parse"
     /\ file_paths = <<<<"m",".","p","y">>>>
     /\ ast_parse(call.text) # SyntaxError)
    => LET record == call.returned
           body == ast_parse(call.text).body
       IN  /\ Ok(record)
           /\ call.text = Py_ClassAB =>
                 \E c \in Range(record.classes) :
                     /\ c.name = <<"A">>
                     /\ <<"B">> \in Range(c.bases)
                     /\ \E m \in Range(c.methods) :
                           /\ m.name = <<"f">>
                           /\ \E a \in Range(m.args) :
                                 /\ a.name = <<"x">>
                                 /\ "default" \in DOMAIN a
                                 /\ a.default = PyInt(1)
           /\ \A node \in Range(Filter(IsFunction, body)) :
                 \E entry \in Range(record.functions) :
                     entry.name = node.name /\ ArgsAgree(entry, node)
           /\ \A class \in Range(Filter(IsClass, body)) :
                 \A node \in Range(Filter(IsFunction, class.body)) :
                     \E c \in Range(record.classes) :
                         /\ c.name = class.name
                         /\ \E entry \in Range(c.methods) :
                               entry.name = node.name /\ ArgsAgree(entry, node)

\* the extractor returned an error record for a function whose two defaulted
\* parameters are positional-only
C5_PositionalOnlyIsAnError ==
    /\ call # NoValue
    /\ call.op = "parse"
    /\ call.text = Py_PosOnly
    /\ call.returned = [error |-> "python analysis error"]

\* C6: in every record of the Python extractor, a function defined directly in a
\* class body is in that class's methods list and is not also among the
\* record's top-level functions.
C6_MethodsAreNotFreeFunctions ==
    (/\ call # NoValue
     /\ call.op = "parse"
     /\ file_paths = <<<<"m",".","p","y">>>>
     /\ Ok(call.returned))
    => LET record == call.returned
           body == ast_parse(call.text).body
       IN  \A class \in Range(Filter(IsClass, body)) :
               \A node \in Range(Filter(IsDef, class.body)) :
                   /\ \E c \in Range(record.classes) :
                         c.name = class.name /\ node.name \in Names(c.methods)
                   /\ node.name \notin Names(record.functions)

\* the extractor returned, for class A(B) with method f, a record that lists f
\* both in A's methods and among the top-level functions
C6_MethodIsAlsoFree ==
    /\ call # NoValue
    /\ call.op = "parse"
    /\ call.text = Py_ClassAB
    /\ Names(call.returned.classes[1].methods) = {<<"f">>}
    /\ Names(call.returned.functions) = {<<"f">>}

\* the offsets at which the text holds the fragment, in increasing order
Occurrences(text, fragment) ==
    LET at == {p \in 0..(Len(text) - Len(fragment)) :
                  Slice(text, p, p + Len(fragment)) = fragment}
    IN  [i \in 1..Cardinality(at) |->
            CHOOSE p \in at : Cardinality({q \in at : q < p}) = i - 1]

\* the block opened by the brace at offset open is never closed: after no
\* character have as many braces closed as opened since
Unterminated(text, open) ==
    \A i \in open..(Len(text) - 1) :
        Cardinality({j \in open..i : At(text, j) = "{"})
            # Cardinality({j \in open..i : At(text, j) = "}"})

\* C7: for the extractors with scoped-body extraction (JavaScript classes,
\* Solidity contracts, Rust impls), when the braces of a construct's block are
\* unbalanced or unterminated the extractor does not raise, and the member list
\* recorded for that construct is empty.
C7_UnterminatedBlockHasNoMembers ==
    (/\ call # NoValue
     /\ call.op = "parse"
     /\ file_paths[1] \in {<<"l","i","b",".","r","s">>, <<"k",".","j","s">>, <<"c",".","s","o","l">>})
    => LET record == call.returned
           opening == CASE file_paths[1] = <<"l","i","b",".","r","s">> -> <<"i","m","p","l"," ","F","o","o"," ","{">>
                        [] file_paths[1] = <<"k",".","j","s">> -> <<"c","l","a","s","s"," ","K"," ","{">>
                        [] file_paths[1] = <<"c",".","s","o","l">> -> <<"c","o","n","t","r","a","c","t"," ","C"," ","{">>
           constructs == CASE file_paths[1] = <<"l","i","b",".","r","s">> -> record.impls
                           [] file_paths[1] = <<"k",".","j","s">> -> record.classes
                           [] file_paths[1] = <<"c",".","s","o","l">> -> record.contracts
           Members(construct) == IF file_paths[1] = <<"c",".","s","o","l">> THEN construct.functions
                                 ELSE construct.methods
           found == Occurrences(call.text, opening)
       IN  /\ Ok(record)
           /\ Len(constructs) = Len(found)
           /\ \A i \in 1..Len(found) :
                 Unterminated(call.text, found[i] + Len(opening) - 1)
                     => Members(constructs[i]) = <<>>

\* the Rust extractor returned, for an impl block that is never closed, an impl
\* entry with a method
C7_UnterminatedImplHasAMethod ==
    /\ call # NoValue
    /\ call.op = "parse"
    /\ file_paths = <<<<"l","i","b",".","r","s">>>>
    /\ call.text = <<"i","m","p","l"," ","F","o","o"," ","{"," ","f","n"," ","a","(",")"," ","{"," ","f","n"," ","b","a","r","(",")"," ","{","}"," ","}">>
    /\ Unterminated(call.text, 9)
    /\ Len(call.returned.impls) = 1
    /\ Names(call.returned.impls[1].methods) = {<<"b","a","r">>}

\* C8, as stated: parse called twice on the same file path and text, by the same
\* CodeAnalyzer or by two, returns identical records, the order of every list
\* included. Two CodeAnalyzers in two processes violate it: list(set) gives the
\* dependencies of "import os\nfrom .y import q\n" as os, y in one and as y, os
\* in the other.
C8_ParseTwiceIsTheSame ==
    (call # NoValue /\ call.op = "parse again") => call.returned = call.first

\* C8, amended: parse called twice on the same file path and text, by the same
\* CodeAnalyzer or by two (handed the text or reading the file), returns
\* identical records, the order of every list included, when both calls run in
\* one process; calls in two processes return records with the same keys that
\* are identical but for the order of the list under 'dependencies', which
\* holds the same identifiers.
C8_ParseTwiceInOneProcessIsTheSame ==
    (call # NoValue /\ call.op = "parse again") =>
        /\ call.seed = hash_seed => call.returned = call.first
        /\ DOMAIN call.returned = DOMAIN call.first
        /\ \A key \in DOMAIN call.first :
              IF key = "dependencies"
              THEN /\ Len(call.returned[key]) = Len(call.first[key])
                   /\ Range(call.returned[key]) = Range(call.first[key])
              ELSE call.returned[key] = call.first[key]

\* a second CodeAnalyzer, handed the text, has parsed a Python text with two
\* dependencies that a first one read from the file, in one process whose set
\* order is not the insertion order: both records list y before os
C8_Witness ==
    /\ call # NoValue
    /\ call.op = "parse again"
    /\ ~call.same_instance
    /\ call.handed
    /\ call.seed = hash_seed
    /\ call.text = Py_Small
    /\ hash_seed[<<<<"o","s">>, <<"y">>>>] = 1
    /\ call.first.dependencies = <<<<"y">>, <<"o","s">>>>
    /\ call.returned.dependencies = <<<<"y">>, <<"o","s">>>>
    /\ Len(call.returned.imports) = 2

-----------------------------------------------------------------------------
(* The claims about the summary of a project of several languages           *)
(* (specification SpecLanguages)                                            *)

\* the text after the last '.' of the path, 'unknown' for a path without one
AfterLastDot(path) ==
    LET dots == {i \in 1..Len(path) : path[i] = "."}
    IN  IF dots = {} THEN <<"u","n","k","n","o","w","n">>
        ELSE SubSeq(path, (CHOOSE i \in dots : \A j \in dots : j <= i) + 1, Len(path))

\* C11: the extension histogram of the summary counts every input path exactly
\* once, analyzed or not: its values sum to the number of input paths, and each
\* key counts the paths whose text after the last '.' it is ('unknown' for the
\* paths without a '.').
C11_HistogramCountsEveryPath ==
    pc = "done" =>
        LET Value(item) == item[2] IN
        /\ Sum(Map(Value, summary.file_types)) = Len(file_paths)
        /\ \A i \in 1..Len(file_paths) :
              dict_has(summary.file_types, AfterLastDot(file_paths[i]))
        /\ \A k \in 1..Len(summary.file_types) :
              summary.file_types[k][2] =
                  Cardinality({i \in 1..Len(file_paths) :
                                  AfterLastDot(file_paths[i]) = summary.file_types[k][1]})

\* the pass has returned for an unreadable Makefile and a m.py that is no Python:
\* no file was analyzed, and both are counted, one under 'unknown', one under 'py'
C11_Witness ==
    /\ pc = "done"
    /\ file_paths = <<<<"M","a","k","e","f","i","l","e">>, <<"m",".","p","y">>>>
    /\ fs[<<"/","p","/","M","a","k","e","f","i","l","e">>] = Unreadable
    /\ fs[<<"/","p","/","m",".","p","y">>] = Py_Broken
    /\ summary.analyzed_files = 0
    /\ summary.file_types = <<<<<<"u","n","k","n","o","w","n">>, 1>>, <<<<"p","y">>, 1>>>>

\* the records of the files of the pass that were analyzed, in the pass's order
AnalyzedRecords ==
    LET Analyzed(pair) == Ok(pair[2])
        Record(pair) == pair[2]
    IN  Map(Record, Filter(Analyzed, parsed))

\* the members one declaration lists under the key
Members(declaration, key) ==
    IF key \in DOMAIN declaration THEN Len(declaration[key]) ELSE 0

\* the declarations (or functions) a record lists under the key
Listed(record, key) == IF key \in DOMAIN record THEN record[key] ELSE <<>>

\* C12: the summary's function count is the sum, over the analyzed files, of the
\* number of top-level functions of the record plus the lengths of the member
\* lists of its declarations: the methods of its classes, the methods of its Rust
\* impls, the functions of its Solidity contracts.
C12_FunctionCountIsTheSum ==
    pc = "done" =>
        LET MembersOf(record, kind, key) ==
                LET Of(declaration) == Members(declaration, key)
                IN  Sum(Map(Of, Listed(record, kind)))
            Functions(record) ==
                Len(Listed(record, "functions"))
                + MembersOf(record, "classes", "methods")
                + MembersOf(record, "impls", "methods")
                + MembersOf(record, "contracts", "functions")
        IN  summary.function_count = Sum(Map(Functions, AnalyzedRecords))

\* the pass has returned for a Solidity contract with one function and a Python
\* class with one method: three functions, the method being listed twice by the
\* Python record
C12_Witness ==
    /\ pc = "done"
    /\ file_paths = <<<<"c",".","s","o","l">>, <<"m",".","p","y">>>>
    /\ fs[<<"/","p","/","m",".","p","y">>] = Py_ClassAB
    /\ Len(AnalyzedRecords) = 2
    /\ Len(AnalyzedRecords[1].contracts[1].functions) = 1
    /\ Len(AnalyzedRecords[2].classes[1].methods) = 1
    /\ Len(AnalyzedRecords[2].functions) = 1
    /\ summary.function_count = 3

\* C13: the summary's declaration count is the sum, over the analyzed files, of
\* the numbers of classes, interfaces, contracts, structs, traits and enums of
\* the record; Rust impl blocks are not counted.
C13_DeclarationCountIsTheSum ==
    pc = "done" =>
        LET Declarations(record) ==
                Len(Listed(record, "classes")) + Len(Listed(record, "interfaces"))
                + Len(Listed(record, "contracts")) + Len(Listed(record, "structs"))
                + Len(Listed(record, "traits")) + Len(Listed(record, "enums"))
        IN  summary.class_count = Sum(Map(Declarations, AnalyzedRecords))

\* the pass has returned for a Java file with a class and an interface and a Rust
\* file with a struct, a trait, an enum and an impl: five declarations
C13_Witness ==
    /\ pc = "done"
    /\ file_paths = <<<<"A",".","j","a","v","a">>, <<"l","i","b",".","r","s">>>>
    /\ Len(AnalyzedRecords) = 2
    /\ Len(AnalyzedRecords[1].classes) = 1 /\ Len(AnalyzedRecords[1].interfaces) = 1
    /\ Len(AnalyzedRecords[2].structs) = 1 /\ Len(AnalyzedRecords[2].traits) = 1
    /\ Len(AnalyzedRecords[2].enums) = 1 /\ Len(AnalyzedRecords[2].impls) = 1
    /\ summary.class_count = 5


\* the identifiers the classifier of get_dependency_graph calls external for a record
ExternalOf(record) ==
    LET External(item) == ~item[2] IN {item[1] : item \in Range(Filter(External, Classify(record)))}

\* C14: the summary's external dependency list is in strictly ascending order (so
\* without duplicates) and holds exactly the identifiers classified external in
\* some analyzed file.
C14_ExternalsAreTheSortedUnion ==
    pc = "done" =>
        /\ \A i \in 1..Len(summary.external_dependencies) - 1 :
              StrLess(summary.external_dependencies[i], summary.external_dependencies[i + 1])
        /\ Range(summary.external_dependencies)
             = UNION {ExternalOf(AnalyzedRecords[i]) : i \in 1..Len(AnalyzedRecords)}

\* the pass has returned for a JavaScript file that imports the packages 'error'
\* and 'react': the file was analyzed, both are classified external, and the
\* summary lists no external dependency
C14_FileImportingErrorIsLeftOut ==
    /\ pc = "done"
    /\ file_paths = <<<<"e",".","j","s">>>>
    /\ fs[<<"/","p","/","e",".","j","s">>] = <<"i","m","p","o","r","t"," ","e"," ","f","r","o","m"," ","'","e","r","r","o","r","'",";","\n","i","m","p","o","r","t"," ","R","e","a","c","t"," ","f","r","o","m"," ","'","r","e","a","c","t","'",";","\n">>
    /\ summary.analyzed_files = 1
    /\ ExternalOf(AnalyzedRecords[1]) = {<<"e","r","r","o","r">>, <<"r","e","a","c","t">>}
    /\ dependency_graph = <<>>
    /\ summary.external_dependencies = <<>>

\* the file is one of C or C++ by its suffix
IsCFile(path) == \E suffix \in {<<".","c">>, <<".","c","p","p">>, <<".","h">>, <<".","h","p","p">>} : endswith(path, suffix)

\* the text of the file of the project
TextOf(path) == fs[path_join(project_path, path)]

\* C15: for an analyzed C/C++ file, every include the text writes between angle
\* brackets is classified external and is listed among the summary's external
\* dependencies, and every include it writes between quotes is classified
\* internal.
C15_IncludesAreClassified ==
    pc = "done" =>
        \A i \in 1..Len(parsed) :
            LET path == parsed[i][1]
                record == parsed[i][2]
                verdicts == Classify(record)
                Written(open, name, close) ==
                    Contains(TextOf(path), <<"#","i","n","c","l","u","d","e"," ">> \o open \o name \o close)
            IN  Ok(record) /\ IsCFile(path) =>
                    \A name \in Range(record.includes) :
                        /\ Written(<<"<">>, name, <<">">>) =>
                              /\ dict_has(verdicts, name) /\ ~dict_get(verdicts, name)
                              /\ name \in Range(summary.external_dependencies)
                        /\ Written(<<"\"">>, name, <<"\"">>) =>
                              dict_has(verdicts, name) /\ dict_get(verdicts, name)

\* the pass has returned for a C file that includes <stdio.h> and "u.h": the file
\* was analyzed as 'c++', no include was classified, and the summary lists no
\* external dependency
C15_IncludesOfCFileAreNotClassified ==
    /\ pc = "done"
    /\ file_paths = <<<<"u",".","c">>>>
    /\ Contains(TextOf(<<"u",".","c">>), <<"#","i","n","c","l","u","d","e"," ","<","s","t","d","i","o",".","h",">">>)
    /\ Len(AnalyzedRecords) = 1
    /\ AnalyzedRecords[1].language = <<"c","+","+">>
    /\ AnalyzedRecords[1].includes = <<<<"s","t","d","i","o",".","h">>, <<"u",".","h">>>>
    /\ dependency_graph = <<<<<<"u",".","c">>, <<>>>>>>
    /\ summary.external_dependencies = <<>>
    /\ summary.internal_dependencies = <<<<<<"u",".","c">>, <<>>>>>>

\* C16: for an analyzed Java file, an import is classified internal exactly when
\* its raw path starts with '.', under the key of its first dotted segment; and
\* a Java file none of whose import paths starts with '.' has no internal
\* adjacency entry.
C16_JavaImportIsInternalOnlyWithLeadingDot ==
    pc = "done" =>
        \A i \in 1..Len(parsed) :
            LET path == parsed[i][1]
                record == parsed[i][2]
                verdicts == Classify(record)
                KeyOf(imp) == IF Contains(imp, <<".">>) THEN split(imp, <<".">>)[1] ELSE imp
                LeadingDot(imp) == startswith(imp, <<".">>)
            IN  Ok(record) /\ record.language = <<"j","a","v","a">> =>
                    /\ \A imp \in Range(record.imports) :
                          /\ dict_has(verdicts, KeyOf(imp))
                          /\ dict_get(verdicts, KeyOf(imp)) = LeadingDot(imp)
                    /\ (\A imp \in Range(record.imports) : ~LeadingDot(imp)) =>
                          \A k \in 1..Len(summary.internal_dependencies) :
                              summary.internal_dependencies[k][1] = path
                                  => summary.internal_dependencies[k][2] = <<>>

\* the pass has returned for a Java file that imports java.util.List and foo: both
\* are classified external, the first under 'java', and the file's adjacency
\* list is empty
C16_Witness ==
    /\ pc = "done"
    /\ file_paths = <<<<"A",".","j","a","v","a">>>>
    /\ Len(AnalyzedRecords) = 1
    /\ AnalyzedRecords[1].imports = <<<<"j","a","v","a",".","u","t","i","l",".","L","i","s","t">>, <<"f","o","o">>>>
    /\ dependency_graph = <<<<<<"A",".","j","a","v","a">>, <<<<<<"j","a","v","a">>, FALSE>>, <<<<"f","o","o">>, FALSE>>>>>>>>
    /\ summary.external_dependencies = <<<<"f","o","o">>, <<"j","a","v","a">>>>
    /\ summary.internal_dependencies = <<<<<<"A",".","j","a","v","a">>, <<>>>>>>

\* C17: for an analyzed Python, JavaScript/TypeScript or Solidity file, every
\* identifier of the record's dependency set has a verdict of the classifier:
\* internal when it starts with '.' (for Solidity: with './' or '../'),
\* external otherwise.
C17_DependencyIsInternalByItsLeadingDot ==
    pc = "done" =>
        \A i \in 1..Len(AnalyzedRecords) :
            LET record == AnalyzedRecords[i]
                verdicts == Classify(record)
                Relative(identifier) ==
                    IF record.language = <<"s","o","l","i","d","i","t","y">>
                    THEN startswith(identifier, <<".","/">>) \/ startswith(identifier, <<".",".","/">>)
                    ELSE startswith(identifier, <<".">>)
            IN  record.language \in {<<"p","y","t","h","o","n">>, <<"j","a","v","a","s","c","r","i","p","t">>, <<"j","s","x","/","t","s","x">>, <<"s","o","l","i","d","i","t","y">>} =>
                    \A identifier \in Range(record.dependencies) :
                        /\ dict_has(verdicts, identifier)
                        /\ dict_get(verdicts, identifier) = Relative(identifier)

\* the pass has returned for a Python file of `import os` and `from .y import q`:
\* the record's dependency set is {os, y}, and the classifier has a verdict for
\* os and for the imported name q, none for y
C17_PythonModuleHasNoVerdict ==
    /\ pc = "done"
    /\ file_paths = <<<<"m",".","p","y">>>>
    /\ TextOf(<<"m",".","p","y">>) = <<"i","m","p","o","r","t"," ","o","s","\n","f","r","o","m"," ",".","y"," ","i","m","p","o","r","t"," ","q","\n">>
    /\ Len(AnalyzedRecords) = 1
    /\ Range(AnalyzedRecords[1].dependencies) = {<<"o","s">>, <<"y">>}
    /\ dependency_graph = <<<<<<"m",".","p","y">>, <<<<<<"o","s">>, FALSE>>, <<<<"q">>, FALSE>>>>>>>>
    /\ summary.external_dependencies = <<<<"o","s">>, <<"q">>>>

-----------------------------------------------------------------------------
(* The claims about the probes of the resolver (specification SpecResolve) *)

\* the suffixes of the candidates of a relative import, in the order of the probes
ProbeSuffixes ==
    <<<<".","p","y">>, <<"/","_","_","i","n","i","t","_","_",".","p","y">>, <<".","j","s">>, <<".","j","s","x">>, <<".","t","s">>, <<".","t","s","x">>, <<".","j","a","v","a">>, <<".","g","o">>,
      <<".","r","s">>, <<".","s","o","l">>>>

\* C18: _resolve_relative_import probes one module path with the suffixes .py,
\* /__init__.py, .js, .jsx, .ts, .tsx, .java, .go, .rs, .sol in this order and
\* returns the first candidate that is in the inventory, None if none is; it
\* returns None for a specifier without a leading '.'.
C18_FirstCandidateInProbeOrder ==
    (call # NoValue /\ call.op = "resolve") =>
        LET candidates == call.candidates
            module == SubSeq(candidates[1], 1, Len(candidates[1]) - 3)
            hits == {k \in 1..Len(candidates) : candidates[k] \in Range(file_paths)}
        IN  IF ~startswith(call.import_path, <<".">>) THEN call.returned = None
            ELSE /\ Len(candidates) = Len(ProbeSuffixes)
                 /\ \A k \in 1..Len(candidates) : candidates[k] = module \o ProbeSuffixes[k]
                 /\ IF hits = {} THEN call.returned = None
                    ELSE call.returned = candidates[CHOOSE k \in hits : \A h \in hits : k <= h]

\* _resolve_relative_import has returned for the specifier '.m' in a project of
\* m/__init__.py and m.js: the package-index file, probed before m.js
C18_Witness ==
    /\ call # NoValue
    /\ call.op = "resolve"
    /\ file_paths = <<<<"m","/","_","_","i","n","i","t","_","_",".","p","y">>, <<"m",".","j","s">>>>
    /\ call.source_file = <<"m",".","j","s">>
    /\ call.import_path = <<".","m">>
    /\ call.candidates[1] = <<"m",".","p","y">>
    /\ call.returned = <<"m","/","_","_","i","n","i","t","_","_",".","p","y">>

-----------------------------------------------------------------------------
(* The claims about repeated passes (specification SpecReuse) *)

\* two dicts of the same items, in whatever order
SameDict(a, b) == Range(a) = Range(b)

\* the two summaries are equal as Python compares them
SameSummary(a, b) ==
    /\ a.files = b.files
    /\ a.analyzed_files = b.analyzed_files
    /\ SameDict(a.file_types, b.file_types)
    /\ SameDict(a.language_stats, b.language_stats)
    /\ a.class_count = b.class_count
    /\ a.function_count = b.function_count
    /\ a.external_dependencies = b.external_dependencies
    /\ SameDict(a.internal_dependencies, b.internal_dependencies)

\* the summary a newly constructed ProjectAnalyzer returns for the project as it is
ColdSummary == analyze_project(project_path, file_paths, cwd, <<>>, <<>>, fs, hash_seed)

\* C19: the summary a pass returns, whatever passes came before it, is the
\* summary a newly constructed ProjectAnalyzer returns for the same root, path
\* list and current file texts.
C19_EveryPassIsAColdRecomputation ==
    pc = "done" => SameSummary(summary, ColdSummary)

\* a second pass has returned for a m.py that parsed in the first pass and is
\* no Python any more: the pass made an error record of it, and the summary still
\* counts it as analyzed, where the summary of a new ProjectAnalyzer counts none
C19_StaleAnalyzerIsCounted ==
    /\ pc = "done"
    /\ file_paths = <<<<"m",".","p","y">>>>
    /\ TextOf(<<"m",".","p","y">>) = Py_Broken
    /\ ~Ok(parsed[1][2])
    /\ Len(file_analyzers) = 1
    /\ file_analyzers[1][2].content = <<"i","m","p","o","r","t"," ","o","s","\n","f","r","o","m"," ",".","y"," ","i","m","p","o","r","t"," ","q","\n">>
    /\ summary.analyzed_files = 1
    /\ summary.external_dependencies = <<<<"o","s">>, <<"q">>>>
    /\ ColdSummary.analyzed_files = 0
    /\ ColdSummary.external_dependencies = <<>>

-----------------------------------------------------------------------------
(* The claims about the dependency set of a Python record (specification     *)
(* SpecExtract)                                                              *)

\* the first dotted segment of a module path
RootModule(module) == split(module, <<".">>)[1]

\* C20: for every import statement of a Python text, `import a.b.c` or
\* `from a.b import c`, the identifier the record's dependency set holds for it
\* is the first dotted segment of the imported module's path, and not the
\* dotted path.
C20_DependencyIsTheRootModule ==
    (/\ call # NoValue
     /\ call.op = "parse"
     /\ file_paths = <<<<"m",".","p","y">>>>
     /\ Ok(call.returned))
    => LET dependencies == Range(call.returned.dependencies)
           body == ast_parse(call.text).body
           Added(module) ==
               /\ RootModule(module) \in dependencies
               /\ Contains(module, <<".">>) => module \notin dependencies
       IN  \A k \in 1..Len(body) :
               /\ body[k].type = "Import" =>
                     \A name \in Range(body[k].names) : Added(name.name)
               /\ body[k].type = "ImportFrom" /\ Truthy(body[k].module) =>
                     Added(body[k].module)

\* the extractor returned, for a text that imports a.b.c and imports from x.y,
\* a record whose dependency set holds the dotted paths a.b.c and x.y and
\* neither a nor x
C20_DependencyIsTheDottedPath ==
    /\ call # NoValue
    /\ call.op = "parse"
    /\ call.text = <<"i","m","p","o","r","t"," ","a",".","b",".","c"," ","a","s"," ","a","b","c","\n","f","r","o","m"," ","x",".","y"," ","i","m","p","o","r","t"," ","z",","," ","w"," ","a","s"," ","v","\n","f","r","o","m"," ","."," ","i","m","p","o","r","t"," ","q","\n","f","r","o","m"," ",".","m"," ","i","m","p","o","r","t"," ","n","\n">>
    /\ Ok(call.returned)
    /\ Range(call.returned.dependencies) = {<<"a",".","b",".","c">>, <<"x",".","y">>, <<"m">>}

-----------------------------------------------------------------------------
(* The claims about the language guess of the generic fallback              *)
(* (specification SpecExtract)                                               *)

\* <<tag, a line that has the signature of the tag>>, in the order of the checks
SignatureLines ==
    <<<<<<"h","t","m","l">>, <<"<","h","t","m","l",">","\n">>>>, <<<<"j","s","x","/","t","s","x">>, <<"i","m","p","o","r","t"," ","R","e","a","c","t","\n">>>>,
      <<<<"j","a","v","a","s","c","r","i","p","t","/","t","y","p","e","s","c","r","i","p","t">>, <<"i","m","p","o","r","t"," ","{","a","}"," ","f","r","o","m"," ","'","b","'","\n">>>>,
      <<<<"j","a","v","a">>, <<"p","a","c","k","a","g","e"," ","a",".","b",";","\n">>>>, <<<<"c","/","c","+","+">>, <<"v","o","i","d"," ","f","(","\n">>>>,
      <<<<"p","y","t","h","o","n">>, <<"d","e","f"," ","f","(","x",")",":","\n">>>>, <<<<"g","o">>, <<"f","u","n","c"," ","F","(","\n">>>>, <<<<"r","u","s","t">>, <<"f","n"," ","g","(","\n">>>>,
      <<<<"s","o","l","i","d","i","t","y">>, <<"c","o","n","t","r","a","c","t"," ","C","\n">>>> >>

\* a text made of lines of SignatureLines only
RECURSIVE OfSignatureLines(_)
OfSignatureLines(text) ==
    \/ text = <<>>
    \/ \E k \in 1..Len(SignatureLines) :
           /\ startswith(text, SignatureLines[k][2])
           /\ OfSignatureLines(SubSeq(text, Len(SignatureLines[k][2]) + 1, Len(text)))

\* C21: the language guess of the generic fallback is the tag of the first
\* signature, in the order html, jsx/tsx, javascript/typescript, java, c/c++,
\* python, go, rust, solidity, that the text holds, whatever later signatures it
\* also holds, and 'unknown' for a text that holds none (over the texts made of
\* one line for each signature).
C21_FirstSignatureWins ==
    (/\ call # NoValue
     /\ call.op = "parse"
     /\ file_paths = <<<<"M","a","k","e","f","i","l","e">>>>
     /\ OfSignatureLines(call.text))
    => LET held == {k \in 1..Len(SignatureLines) : Contains(call.text, SignatureLines[k][2])}
       IN  /\ Ok(call.returned)
           /\ call.returned.language =
                  IF held = {} THEN <<"u","n","k","n","o","w","n">>
                  ELSE SignatureLines[CHOOSE k \in held : \A h \in held : k <= h][1]

\* the fallback has returned for a text that holds the Python signature and then
\* the C/C++ one: the guess is c/c++, the earlier of the two checks
C21_Witness ==
    /\ call # NoValue
    /\ call.op = "parse"
    /\ file_paths = <<<<"M","a","k","e","f","i","l","e">>>>
    /\ call.text = <<"d","e","f"," ","f","(","x",")",":","\n","v","o","i","d"," ","f","(","\n">>
    /\ call.returned.language = <<"c","/","c","+","+">>

-----------------------------------------------------------------------------
(* The claims about the summary and the order of the files                  *)
(* (specification SpecOrder)                                                 *)

\* the orders in which the files of the project can be taken
Orders(paths) ==
    {[i \in 1..Len(paths) |-> paths[order[i]]] : order \in Permutations(1..Len(paths))}

\* the summary of the pass that takes the files in the order given
SummaryInOrder(paths) ==
    analyze_project(project_path, paths, cwd, <<>>, <<>>, fs, hash_seed)

\* C22: the summary does not depend on the order in which the files are
\* extracted: the pass over any permutation of the paths returns the same
\* summary, its maps compared by key, its adjacency lists file by file, its
\* external list as the sorted list it is.
C22_SummaryIsIndependentOfTheOrder ==
    pc = "done" /\ call = NoValue =>
        \A paths \in Orders(file_paths) : SameSummary(summary, SummaryInOrder(paths))

\* the pass has returned for a Java file and a Go file; the pass that takes the Go
\* file first fills its maps in the other order and returns the same summary
C22_Witness ==
    /\ pc = "done"
    /\ file_paths = <<<<"A",".","j","a","v","a">>, <<"g",".","g","o">>>>
    /\ summary.language_stats = <<<<<<"j","a","v","a">>, 1>>, <<<<"g","o">>, 1>>>>
    /\ SummaryInOrder(<<<<"g",".","g","o">>, <<"A",".","j","a","v","a">>>>).language_stats = <<<<<<"g","o">>, 1>>, <<<<"j","a","v","a">>, 1>>>>
    /\ summary.external_dependencies = SummaryInOrder(<<<<"g",".","g","o">>, <<"A",".","j","a","v","a">>>>).external_dependencies
    /\ Len(summary.external_dependencies) > 1

-----------------------------------------------------------------------------
(* The claims about the brace scan (specification SpecExtract) *)

\* the number of '{' less the number of '}' of the text
BraceDepth(text) ==
    Cardinality({i \in 1..Len(text) : text[i] = "{"})
    - Cardinality({i \in 1..Len(text) : text[i] = "}"})

\* every '}' of the text closes a '{' of the text, and every '{' is closed
BraceBalanced(text) ==
    /\ BraceDepth(text) = 0
    /\ \A n \in 0..Len(text) : BraceDepth(SubSeq(text, 1, n)) >= 0

\* C23: _find_class_content(offset) takes the first '{' at or after the offset
\* and returns the text strictly between it and the '}' that matches it, a text
\* that is itself brace-balanced; it returns None when there is no '{' at or
\* after the offset, or when no '}' matches that '{' before the end of the text.
C23_ContentBetweenMatchingBraces ==
    (call # NoValue /\ call.op = "find")
    => LET text == call.text
           opens == {b \in call.start_pos..(Len(text) - 1) : At(text, b) = "{"}
           open == CHOOSE b \in opens : \A o \in opens : b <= o
           closes == {e \in (open + 1)..(Len(text) - 1) :
                         At(text, e) = "}" /\ BraceBalanced(Slice(text, open + 1, e))}
       IN  IF opens = {} THEN call.returned = None
           ELSE IF closes = {} THEN call.returned = None
           ELSE /\ \E e \in closes : call.returned = Slice(text, open + 1, e)
                /\ BraceBalanced(call.returned)
                /\ Cardinality(closes) = 1

\* _find_class_content has returned, for the offset after `class K`, the body of
\* the class with the braces of its method
C23_Witness ==
    /\ call # NoValue
    /\ call.op = "find"
    /\ call.text = <<"c","l","a","s","s"," ","K"," ","{"," ","m","(",")"," ","{","}"," ","}">>
    /\ call.start_pos = 7
    /\ call.returned = <<" ","m","(",")"," ","{","}"," ">>

-----------------------------------------------------------------------------
(* The claims about the functions of a Rust record (specification SpecExtract) *)

\* C24: in the record of a Rust text, balanced or not, a `fn` the text holds
\* once is not listed both among the methods of an impl and among the
\* top-level functions.
C24_NoFnIsBothMethodAndFunction ==
    (/\ call # NoValue
     /\ call.op = "parse"
     /\ file_paths = <<<<"l","i","b",".","r","s">>>>
     /\ Ok(call.returned))
    => \A k \in 1..Len(call.returned.impls) :
           \A name \in Names(call.returned.impls[k].methods) :
               Len(Occurrences(call.text, <<" ","f","n"," ">> \o name \o <<"(">>)) = 1
                   => name \notin Names(call.returned.functions)

\* the extractor returned, for an impl that is never closed and whose method a
\* holds a nested fn bar, a record that lists bar once as a method of the impl
\* and once as a top-level function
C24_NestedFnIsMethodAndFunction ==
    /\ call # NoValue
    /\ call.op = "parse"
    /\ call.text = <<"i","m","p","l"," ","F","o","o"," ","{"," ","f","n"," ","a","(",")"," ","{"," ","f","n"," ","b","a","r","(",")"," ","{","}"," ","}">>
    /\ Len(call.returned.impls) = 1
    /\ call.returned.impls[1].methods = <<[name |-> <<"b","a","r">>]>>
    /\ call.returned.functions = <<[name |-> <<"a">>], [name |-> <<"b","a","r">>]>>

-----------------------------------------------------------------------------
(* The claims about the classifier and the adjacency map                    *)
(* (specification SpecLanguages)                                             *)

\* the identifiers the classifier of get_dependency_graph calls internal for a record
InternalOf(record) ==
    LET Internal(item) == item[2] IN {item[1] : item \in Range(Filter(Internal, Classify(record)))}

\* the record the pass made of the file
RecordOf(path) == parsed[CHOOSE i \in 1..Len(parsed) : parsed[i][1] = path][2]

\* what _resolve_relative_import returns to the file for the identifier
ResolvedFor(path, identifier) ==
    _resolve_relative_import(project_path, file_paths, cwd, path, identifier)

\* C25: a file's adjacency list holds a target once for every distinct internal
\* identifier of the file that resolves to it: a specifier the file writes
\* several times counts once, two specifiers that resolve to one target give
\* two entries.
C25_OneEntryForEachDistinctIdentifier ==
    pc = "done" =>
        \A k \in 1..Len(summary.internal_dependencies) :
            LET path == summary.internal_dependencies[k][1]
                adjacency == summary.internal_dependencies[k][2]
            IN  \A target \in Range(file_paths) \cup Range(adjacency) :
                    Cardinality({i \in 1..Len(adjacency) : adjacency[i] = target})
                        = Cardinality({identifier \in InternalOf(RecordOf(path)) :
                                          ResolvedFor(path, identifier) = target})

\* the pass has returned for an e.js that imports '.m' twice and '..m' once, both
\* resolving to m.js: the adjacency list of e.js holds m.js twice
C25_Witness ==
    /\ pc = "done"
    /\ file_paths = <<<<"e",".","j","s">>, <<"m",".","j","s">>>>
    /\ Len(RecordOf(<<"e",".","j","s">>).imports) = 3
    /\ InternalOf(RecordOf(<<"e",".","j","s">>)) = {<<".","m">>, <<".",".","m">>}
    /\ summary.internal_dependencies = <<<<<<"e",".","j","s">>, <<<<"m",".","j","s">>, <<"m",".","j","s">>>>>>, <<<<"m",".","j","s">>, <<>>>>>>

-----------------------------------------------------------------------------
(* The claims about the suffixes the resolver probes (specification SpecResolve) *)

\* the suffixes parse has an extractor of its own for
ExtractorSuffixes ==
    {<<".","p","y">>, <<".","j","s">>, <<".","j","s","x">>, <<".","t","s">>, <<".","t","s","x">>, <<".","j","a","v","a">>, <<".","c">>, <<".","c","p","p">>, <<".","h">>,
     <<".","h","p","p">>, <<".","s","o","l">>, <<".","g","o">>, <<".","r","s">>}

\* C26: the resolver probes every suffix parse has an extractor for: a relative
\* specifier resolves whenever the inventory holds the module's path with one of
\* these suffixes.
C26_EveryExtractorSuffixIsProbed ==
    (/\ call # NoValue
     /\ call.op = "resolve"
     /\ startswith(call.import_path, <<".">>))
    => LET module == SubSeq(call.candidates[1], 1, Len(call.candidates[1]) - 3)
       IN  \A suffix \in ExtractorSuffixes :
               /\ suffix \in Range(possible_extensions)
               /\ module \o suffix \in Range(file_paths) => call.returned # None

\* _resolve_relative_import has returned None for the specifier '.u' in a project
\* that holds u.c: the candidates have no path with the suffix .c
C26_CSourceIsNotProbed ==
    /\ call # NoValue
    /\ call.op = "resolve"
    /\ call.import_path = <<".","u">>
    /\ call.source_file = <<"e",".","j","s">>
    /\ file_paths = <<<<"u",".","c">>, <<"e",".","j","s">>>>
    /\ call.candidates[1] = <<"u",".","p","y">>
    /\ <<"u",".","c">> \notin Range(call.candidates)
    /\ call.returned = None

-----------------------------------------------------------------------------
(* The claims about the classifier and the dependency sets                   *)
(* (specification SpecLanguages)                                             *)

\* C27: for every analyzed file, the identifiers the classifier has a verdict
\* for are the identifiers of the record's dependency set, and every external
\* dependency of the summary is in the dependency set of some analyzed file.
C27_ClassifiedAreTheDependencies ==
    pc = "done" =>
        /\ \A i \in 1..Len(AnalyzedRecords) :
              InternalOf(AnalyzedRecords[i]) \cup ExternalOf(AnalyzedRecords[i])
                  = Range(Listed(AnalyzedRecords[i], "dependencies"))
        /\ \A identifier \in Range(summary.external_dependencies) :
              \E i \in 1..Len(AnalyzedRecords) :
                  identifier \in Range(Listed(AnalyzedRecords[i], "dependencies"))

\* the pass has returned for a Java file that imports java.util.List and foo: the
\* record's dependency set holds java.util.List, the classifier has a verdict
\* for java, and the summary lists java as an external dependency
C27_ClassifiedIsNoDependency ==
    /\ pc = "done"
    /\ file_paths = <<<<"A",".","j","a","v","a">>>>
    /\ Len(AnalyzedRecords) = 1
    /\ Range(AnalyzedRecords[1].dependencies) = {<<"j","a","v","a",".","u","t","i","l",".","L","i","s","t">>, <<"f","o","o">>}
    /\ ExternalOf(AnalyzedRecords[1]) = {<<"j","a","v","a">>, <<"f","o","o">>}
    /\ <<"j","a","v","a">> \in Range(summary.external_dependencies)

\* C28: the keys of the summary's adjacency map are exactly the analyzed files,
\* and every identifier classified external in an analyzed file is among the
\* summary's external dependencies, whatever the file imports.
C28_EveryAnalyzedFileHasAnEntry ==
    pc = "done" =>
        /\ {summary.internal_dependencies[k][1] : k \in 1..Len(summary.internal_dependencies)}
             = {parsed[i][1] : i \in {i \in 1..Len(parsed) : Ok(parsed[i][2])}}
        /\ \A i \in 1..Len(AnalyzedRecords) :
              ExternalOf(AnalyzedRecords[i]) \subseteq Range(summary.external_dependencies)

\* the pass has returned for an e.js that imports the package 'error' and a m.js
\* that imports nothing: both were analyzed, and the adjacency map has an entry
\* for m.js alone
C28_FileImportingErrorHasNoEntry ==
    /\ pc = "done"
    /\ file_paths = <<<<"e",".","j","s">>, <<"m",".","j","s">>>>
    /\ summary.analyzed_files = 2
    /\ <<"e","r","r","o","r">> \in ExternalOf(RecordOf(<<"e",".","j","s">>))
    /\ summary.internal_dependencies = <<<<<<"m",".","j","s">>, <<>>>>>>
    /\ summary.external_dependencies = <<>>

-----------------------------------------------------------------------------
(* The claims about the functions of a Python record (specification SpecExtract) *)

\* C29: the functions list of a Python record holds no function that is defined
\* in the body of another function.
C29_NestedDefIsNotListed ==
    (/\ call # NoValue
     /\ call.op = "parse"
     /\ file_paths = <<<<"m",".","p","y">>>>
     /\ Ok(call.returned))
    => LET body == ast_parse(call.text).body
       IN  \A outer \in Range(Filter(IsDef, body)) :
               \A inner \in Range(Filter(IsDef, outer.body)) :
                   inner.name \notin Names(call.returned.functions)

\* the extractor returned, for a text whose function outer holds a def inner, a
\* record that lists inner among the functions after outer
C29_NestedDefIsListed ==
    /\ call # NoValue
    /\ call.op = "parse"
    /\ call.text = Py_Nested
    /\ Ok(call.returned)
    /\ call.returned.functions[1].name = <<"o","u","t","e","r">>
    /\ call.returned.functions[2].name = <<"i","n","n","e","r">>
    /\ Len(call.returned.functions) = 4

-----------------------------------------------------------------------------
(* The claims about the internal identifiers that are not relative          *)
(* (specification SpecLanguages)                                             *)

\* what the pass says of the undotted internal identifiers of its files: none
\* resolves, and every entry of a file's adjacency list comes from an identifier
\* of the file with a leading '.'; InExternals(identifier) is what it says of the
\* identifier and the external dependencies
UndottedInternalsAreUnresolved(InExternals(_)) ==
    \A i \in 1..Len(parsed) :
        LET path == parsed[i][1]
            record == parsed[i][2]
            Undotted(identifier) == ~startswith(identifier, <<".">>)
        IN  Ok(record) =>
              /\ \A identifier \in InternalOf(record) :
                    Undotted(identifier) =>
                        /\ ResolvedFor(path, identifier) = None
                        /\ InExternals(identifier)
              /\ dict_has(summary.internal_dependencies, path) =>
                    \A target \in Range(dict_get(summary.internal_dependencies, path)) :
                        \E identifier \in InternalOf(record) :
                            /\ ~Undotted(identifier)
                            /\ ResolvedFor(path, identifier) = target

\* C30, as stated: an identifier that is classified internal and does not start
\* with '.' (a Go import path with a '/', a Rust crate other than std, core and
\* alloc) is never resolved: _resolve_relative_import returns None for it, it
\* produces no adjacency entry and it is absent from the external dependencies.
\* The pass over A.java (import foo;) and lib.rs (use foo::bar;) violates it:
\* foo is internal to lib.rs and external to A.java, and the summary lists it.
C30_UndottedInternalIsNeverResolved ==
    pc = "done" =>
        UndottedInternalsAreUnresolved(
            LAMBDA identifier : identifier \notin Range(summary.external_dependencies))

\* C30, amended: an identifier that is classified internal and does not start
\* with '.' is never resolved: _resolve_relative_import returns None for it,
\* every entry of the file's adjacency list comes from an identifier with a
\* leading '.', and the file's classification adds nothing to the external
\* dependencies: the identifier is among them only when an analyzed file
\* classifies the same identifier external.
C30_UndottedInternalIsExternalOnlyElsewhere ==
    pc = "done" =>
        UndottedInternalsAreUnresolved(
            LAMBDA identifier :
                identifier \in Range(summary.external_dependencies) =>
                    \E k \in 1..Len(AnalyzedRecords) :
                        identifier \in ExternalOf(AnalyzedRecords[k]))

\* the pass has returned for a Java file that imports foo and a Rust file that
\* uses the crates foo and m: foo and m are internal to the Rust file and neither
\* resolves, the adjacency list of the Rust file is empty, m is no external
\* dependency, and foo is one because the Java file classifies it external
C30_Witness ==
    /\ pc = "done"
    /\ file_paths = <<<<"A",".","j","a","v","a">>, <<"l","i","b",".","r","s">>>>
    /\ Len(AnalyzedRecords) = 2
    /\ {<<"f","o","o">>, <<"m">>} \subseteq InternalOf(RecordOf(<<"l","i","b",".","r","s">>))
    /\ ResolvedFor(<<"l","i","b",".","r","s">>, <<"f","o","o">>) = None
    /\ ResolvedFor(<<"l","i","b",".","r","s">>, <<"m">>) = None
    /\ dict_get(summary.internal_dependencies, <<"l","i","b",".","r","s">>) = <<>>
    /\ <<"m">> \notin Range(summary.external_dependencies)
    /\ <<"f","o","o">> \in ExternalOf(RecordOf(<<"A",".","j","a","v","a">>))
    /\ <<"f","o","o">> \notin ExternalOf(RecordOf(<<"l","i","b",".","r","s">>))
    /\ <<"f","o","o">> \in Range(summary.external_dependencies)
=============================================================================
